---------------------------- MODULE Spec2Model ----------------------------
(***************************************************************************)
(* Model of the segment-aware cut logic of HomeTube (src/app/main.py and   *)
(* src/app/utils.py): parse_time_like, fmt_hhmmss, find_nearest_keyframes, *)
(* fetch_sponsorblock_segments, merge_overlaps, invert_segments,           *)
(* build_time_remap, remap_interval, calculate_sponsor_overlap, the log    *)
(* buffer they push to, and the submitted run that downloads a video and   *)
(* cuts a section out of it.                                               *)
(*                                                                         *)
(* Times are seconds in the code, floats for segments and ints for the     *)
(* requested window.  The model counts time in ticks, TicksPerSec ticks    *)
(* to the second: an int of the code is a multiple of TicksPerSec, a float *)
(* is any tick.  Python's int(x) is the truncation toward zero.            *)
(***************************************************************************)
EXTENDS Integers, Sequences, FiniteSets, TLC

VARIABLES
    pc,                   \* position of the specification's script
    segments,             \* argument of merge_overlaps / invert_segments
    margin,               \* argument of merge_overlaps
    merged,               \* result of merge_overlaps(segments, margin)
    remerged,             \* result of merging the merged list again, margin 0
    total_duration,       \* argument of invert_segments / build_time_remap
    keep,                 \* result of invert_segments
    mapping,              \* table captured by the remap closure
    t_start, t_end,       \* arguments of remap_interval
    s2, e2,               \* remap(start), remap(end) inside remap_interval
    interval,             \* result of remap_interval
    start_sec, end_sec,   \* requested window (ints, or None)
    sponsor_segments,     \* segments handed to calculate_sponsor_overlap
    sponsor_time_removed, \* first result of calculate_sponsor_overlap
    adjusted_end_sec,     \* second result of calculate_sponsor_overlap
    do_cut,               \* the run cuts a section
    remove_cats,          \* SponsorBlock removes some categories
    original_end_sec,     \* end_sec as requested
    cut_mode,             \* "keyframes" or "precise"
    keyframes,            \* result of get_keyframes
    actual_start, actual_end, \* window chosen for the cut
    cmd_cut,              \* <<-ss, -to>> of the ffmpeg command, <<>> before
    ret_dl, ret_cut,      \* results of run_cmd
    hooks,                \* hooks fired, in order, with their STATUS
    download_finished,    \* st.session_state.download_finished
    cut_content,          \* original ticks held by the cut file
    ALL_LOGS,             \* global buffer of log lines, main.py 2414: the
                          \* lines calculate_sponsor_overlap and
                          \* find_nearest_keyframes push
    time_str,             \* argument of parse_time_like
    seconds,              \* argument of fmt_hhmmss
    parsed,               \* result of parse_time_like
    formatted,            \* result of fmt_hhmmss
    lookup,               \* what the SponsorBlock lookup meets
    fetch_result,         \* result of fetch_sponsorblock_segments
    calls,                \* the call each thread is in
    download_cancelled,   \* st.session_state.download_cancelled
    proc,                 \* the process run_cmd drives
    stdout,               \* the lines written to its pipe and not yet read
    tmp_files             \* the files of the run in the temporary folder

mergeVars == <<margin, merged, remerged>>
remapVars == <<total_duration, keep, mapping, t_start, t_end, s2, e2, interval>>
overlapVars == <<start_sec, end_sec, sponsor_segments, sponsor_time_removed,
                 adjusted_end_sec>>
runVars == <<do_cut, remove_cats, original_end_sec, cut_mode, keyframes,
             actual_start, actual_end, cmd_cut, ret_dl, ret_cut, hooks,
             download_finished, cut_content>>
timeVars == <<time_str, seconds, parsed, formatted>>
fetchVars == <<lookup, fetch_result>>
cmdVars == <<download_cancelled, proc, stdout, tmp_files>>
auxVars == <<timeVars, fetchVars, calls, cmdVars>>
coreVars == <<segments, mergeVars, remapVars, overlapVars, runVars>>
vars == <<pc, segments, mergeVars, remapVars, overlapVars, runVars, ALL_LOGS,
          auxVars>>

---------------------------------------------------------------------------
(* Bounds of the model *)

\* last tick of the modelled timeline
MaxT == 4
\* longest segment list
MaxSegs == 2
\* ticks per second: 2 makes x.5 seconds representable
TicksPerSec == 2

\* two SponsorBlock categories, numbered in the order Python sorts their names
Categories == {1, 2}
Margins == {0, 1}

Ticks == 0..MaxT
\* whole seconds of the timeline, in ticks
Seconds == {t \in Ticks : t % TicksPerSec = 0}

SegmentsOf(cats) ==
    {s \in [start : Ticks, end : Ticks, category : cats] : s.start <= s.end}
SegListsOf(cats) ==
    UNION {[1..n -> SegmentsOf(cats)] : n \in 0..MaxSegs}

None == 0 - 1

---------------------------------------------------------------------------
(* Python builtins *)

Max(a, b) == IF a >= b THEN a ELSE b
Min(a, b) == IF a <= b THEN a ELSE b

\* int(x) of a float x: truncation toward zero
py_int(x) ==
    IF x >= 0 THEN (x \div TicksPerSec) * TicksPerSec
    ELSE 0 - (((0 - x) \div TicksPerSec) * TicksPerSec)

\* order of Python tuples (a, b, cat)
tuple_less(x, y) ==
    \/ x[1] < y[1]
    \/ x[1] = y[1] /\ x[2] < y[2]
    \/ x[1] = y[1] /\ x[2] = y[2] /\ x[3] < y[3]

\* x put into the sorted list srt, after every element that is not greater
insert_tuple(srt, x) ==
    LET k == Cardinality({i \in 1..Len(srt) : ~tuple_less(x, srt[i])})
    IN  SubSeq(srt, 1, k) \o <<x>> \o SubSeq(srt, k + 1, Len(srt))

RECURSIVE sorted_tuples(_)
sorted_tuples(s) ==
    IF s = <<>> THEN <<>>
    ELSE insert_tuple(sorted_tuples(SubSeq(s, 1, Len(s) - 1)), s[Len(s)])

\* sorted(segments, key=lambda x: x["start"]): stable, by start only
insert_by_start(srt, x) ==
    LET k == Cardinality({i \in 1..Len(srt) : srt[i].start <= x.start})
    IN  SubSeq(srt, 1, k) \o <<x>> \o SubSeq(srt, k + 1, Len(srt))

RECURSIVE sorted_by_start(_)
sorted_by_start(s) ==
    IF s = <<>> THEN <<>>
    ELSE insert_by_start(sorted_by_start(SubSeq(s, 1, Len(s) - 1)), s[Len(s)])

\* sorted(cats) of a set of categories
sorted_cats(S) ==
    CHOOSE f \in [1..Cardinality(S) -> S] :
        \A i, j \in 1..Cardinality(S) : i < j => f[i] < f[j]

---------------------------------------------------------------------------
(* Helpers time: parse_time_like and fmt_hhmmss.  A string is a sequence   *)
(* of characters, a character a one-letter TLA+ string.                    *)

\* the decimal digits, in order of value
DigitChars == <<"0", "1", "2", "3", "4", "5", "6", "7", "8", "9">>
DecimalChars == {DigitChars[i] : i \in 1..Len(DigitChars)}
\* SUPERSCRIPT TWO, U+00B2: str.isdigit() is True of it, int() rejects it
Sup2 == "sup2"
\* the characters str.isdigit() accepts
IsdigitChars == DecimalChars \cup {Sup2}
\* the characters str.strip() removes
Whitespace == {" "}

\* the exception int() raises, as a result of the call
ValueError == 0 - 2

digit_value(c) == (CHOOSE i \in 1..Len(DigitChars) : DigitChars[i] = c) - 1

\* str.isdigit(): not empty and every character a digit
isdigit(s) == s # <<>> /\ \A i \in 1..Len(s) : s[i] \in IsdigitChars

RECURSIVE decimal_value(_)
decimal_value(s) ==
    IF s = <<>> THEN 0
    ELSE decimal_value(SubSeq(s, 1, Len(s) - 1)) * 10 + digit_value(s[Len(s)])

\* int(s) of a string that passed isdigit()
int_of_str(s) ==
    IF \E i \in 1..Len(s) : s[i] \notin DecimalChars THEN ValueError
    ELSE decimal_value(s)

RECURSIVE lstrip(_)
lstrip(s) ==
    IF s # <<>> /\ s[1] \in Whitespace THEN lstrip(Tail(s)) ELSE s

RECURSIVE rstrip(_)
rstrip(s) ==
    IF s # <<>> /\ s[Len(s)] \in Whitespace
    THEN rstrip(SubSeq(s, 1, Len(s) - 1)) ELSE s

strip(s) == rstrip(lstrip(s))

\* s.split(":"): the parts between the separators, empty parts included
RECURSIVE split_scan(_, _, _, _)
split_scan(s, i, part, parts) ==
    IF i > Len(s) THEN Append(parts, part)
    ELSE IF s[i] = ":" THEN split_scan(s, i + 1, <<>>, Append(parts, part))
    ELSE split_scan(s, i + 1, Append(part, s[i]), parts)

split(s) == split_scan(s, 1, <<>>, <<>>)

\* parse_time_like of main.py; the result is a number of seconds, None, or
\* ValueError when int() raises
parse_time_like(str) ==
    LET s == strip(str)
    IN  IF s = <<>> THEN None
        ELSE IF s[1] = "-" THEN None
        ELSE IF isdigit(s) THEN int_of_str(s)
        ELSE LET parts == split(s)
             IN  IF \E i \in 1..Len(parts) : ~isdigit(parts[i]) THEN None
                 ELSE IF \E i \in 1..Len(parts) : int_of_str(parts[i]) = ValueError
                 THEN ValueError
                 ELSE LET n == [i \in 1..Len(parts) |-> int_of_str(parts[i])]
                      IN  IF Len(n) = 2
                          THEN IF n[2] >= 60 THEN None
                               ELSE n[1] * 60 + n[2]
                          ELSE IF Len(n) = 3
                          THEN IF n[2] >= 60 \/ n[3] >= 60 THEN None
                               ELSE n[1] * 3600 + n[2] * 60 + n[3]
                          ELSE None

\* the decimal digits of n >= 0
RECURSIVE digits(_)
digits(n) ==
    IF n < 10 THEN <<DigitChars[n + 1]>>
    ELSE Append(digits(n \div 10), DigitChars[(n % 10) + 1])

\* f"{n:02d}": at least two characters, the sign counted, zeros for padding
format_02d(n) ==
    IF n < 0 THEN <<"-">> \o digits(0 - n)
    ELSE IF n < 10 THEN <<"0">> \o digits(n)
    ELSE digits(n)

\* f"{n:d}"
format_d(n) == IF n < 0 THEN <<"-">> \o digits(0 - n) ELSE digits(n)

\* Python's // and % by a positive number: the floor and its remainder
floordiv(a, b) == IF a >= 0 THEN a \div b ELSE 0 - (((0 - a) + b - 1) \div b)
mod(a, b) == a - b * floordiv(a, b)

fmt_hhmmss_unpadded(secs) ==
    format_d(floordiv(secs, 3600)) \o <<":">>
        \o format_d(floordiv(mod(secs, 3600), 60)) \o <<":">>
        \o format_d(mod(secs, 60))

\* fmt_hhmmss of main.py
fmt_hhmmss(secs) ==
    LET hours == floordiv(secs, 3600)
        minutes == floordiv(mod(secs, 3600), 60)
        s == mod(secs, 60)
    IN  format_02d(hours) \o <<":">> \o format_02d(minutes) \o <<":">>
            \o format_02d(s)

\* fmt_hhmmss of utils.py
utils_fmt_hhmmss(secs) ==
    IF secs < 0 THEN <<"0", "0", ":", "0", "0", ":", "0", "0">>
    ELSE fmt_hhmmss(secs)

---------------------------------------------------------------------------
(* merge_overlaps, main.py 1230-1245 *)

expand(segs, m) ==
    [i \in 1..Len(segs) |->
        <<Max(0, segs[i].start - m), segs[i].end + m, segs[i].category>>]

\* a sweep that takes the later tuple's end for the entry, without max
RECURSIVE merge_sweep_last_end(_, _, _)
merge_sweep_last_end(segs, i, acc) ==
    IF i > Len(segs) THEN acc
    ELSE LET a == segs[i][1]
             b == segs[i][2]
             cat == segs[i][3]
             n == Len(acc)
         IN  IF n = 0 \/ a > acc[n][2]
             THEN merge_sweep_last_end(segs, i + 1, Append(acc, <<a, b, {cat}>>))
             ELSE merge_sweep_last_end(segs, i + 1,
                     [acc EXCEPT ![n] = <<acc[n][1], b, acc[n][3] \cup {cat}>>])

\* the sweep over the sorted tuples; merged holds <<a, b, cats>>
RECURSIVE merge_sweep(_, _, _)
merge_sweep(segs, i, acc) ==
    IF i > Len(segs) THEN acc
    ELSE LET a == segs[i][1]
             b == segs[i][2]
             cat == segs[i][3]
             n == Len(acc)
         IN  IF n = 0 \/ a > acc[n][2]
             THEN merge_sweep(segs, i + 1, Append(acc, <<a, b, {cat}>>))
             ELSE merge_sweep(segs, i + 1,
                     [acc EXCEPT ![n] = <<acc[n][1], Max(acc[n][2], b),
                                          acc[n][3] \cup {cat}>>])

merged_records(acc) ==
    [i \in 1..Len(acc) |->
        [start |-> acc[i][1], end |-> acc[i][2],
         categories |-> sorted_cats(acc[i][3])]]

\* a sweep that keeps adjacent segments apart: a >= end opens a new entry
RECURSIVE merge_sweep_adjacent_apart(_, _, _)
merge_sweep_adjacent_apart(segs, i, acc) ==
    IF i > Len(segs) THEN acc
    ELSE LET a == segs[i][1]
             b == segs[i][2]
             cat == segs[i][3]
             n == Len(acc)
         IN  IF n = 0 \/ a >= acc[n][2]
             THEN merge_sweep_adjacent_apart(segs, i + 1,
                     Append(acc, <<a, b, {cat}>>))
             ELSE merge_sweep_adjacent_apart(segs, i + 1,
                     [acc EXCEPT ![n] = <<acc[n][1], Max(acc[n][2], b),
                                          acc[n][3] \cup {cat}>>])

merge_overlaps_adjacent_apart(segs, m) ==
    merged_records(merge_sweep_adjacent_apart(sorted_tuples(expand(segs, m)), 1, <<>>))

\* "margin or one tick": a margin of 0 is taken as not given
merge_overlaps_margin_or_default(segs, m) ==
    merged_records(merge_sweep(
        sorted_tuples(expand(segs, IF m = 0 THEN 1 ELSE m)), 1, <<>>))

\* the sweep run over the tuples in the order given, without sorted()
merge_overlaps_unsorted(segs, m) ==
    merged_records(merge_sweep(expand(segs, m), 1, <<>>))

merge_overlaps(segs, m) ==
    merged_records(merge_sweep(sorted_tuples(expand(segs, m)), 1, <<>>))

\* a merged list taken as a segment list: one segment per category carried
RECURSIVE merged_as_segments(_)
merged_as_segments(ms) ==
    IF ms = <<>> THEN <<>>
    ELSE LET m == ms[1]
         IN  [i \in 1..Len(m.categories) |->
                 [start |-> m.start, end |-> m.end,
                  category |-> m.categories[i]]]
             \o merged_as_segments(Tail(ms))

---------------------------------------------------------------------------
(* invert_segments, main.py 1249-1260 and utils.py 184-216 *)

RECURSIVE invert_sweep(_, _, _, _, _)
invert_sweep(segs, total, i, cur, acc) ==
    IF i > Len(segs)
    THEN IF cur < total THEN Append(acc, <<cur, total>>) ELSE acc
    ELSE LET a == Max(0, segs[i].start)
             b == Min(total, segs[i].end)
         IN  invert_sweep(segs, total, i + 1, Max(cur, b),
                          IF a > cur THEN Append(acc, <<cur, a>>) ELSE acc)

\* the sweep with cur = b in place of cur = max(cur, b)
RECURSIVE invert_sweep_no_max(_, _, _, _, _)
invert_sweep_no_max(segs, total, i, cur, acc) ==
    IF i > Len(segs)
    THEN IF cur < total THEN Append(acc, <<cur, total>>) ELSE acc
    ELSE LET a == Max(0, segs[i].start)
             b == Min(total, segs[i].end)
         IN  invert_sweep_no_max(segs, total, i + 1, b,
                          IF a > cur THEN Append(acc, <<cur, a>>) ELSE acc)

invert_segments_no_max(segs, total) ==
    invert_sweep_no_max(sorted_by_start(segs), total, 1, 0, <<>>)

invert_segments(segs, total) ==
    invert_sweep(sorted_by_start(segs), total, 1, 0, <<>>)

\* utils.py takes (start, end) tuples and does not clamp them
RECURSIVE utils_invert_sweep(_, _, _, _, _)
utils_invert_sweep(segs, total, i, last_end, acc) ==
    IF i > Len(segs)
    THEN IF last_end < total THEN Append(acc, <<last_end, total>>) ELSE acc
    ELSE utils_invert_sweep(segs, total, i + 1, Max(last_end, segs[i].end),
             IF segs[i].start > last_end
             THEN Append(acc, <<last_end, segs[i].start>>) ELSE acc)

utils_invert_segments(segs, total) ==
    IF segs = <<>> \/ total <= 0
    THEN IF total > 0 THEN << <<0, total>> >> ELSE <<>>
    ELSE utils_invert_sweep(sorted_by_start(segs), total, 1, 0, <<>>)

---------------------------------------------------------------------------
(* build_time_remap and remap_interval, main.py 1263-1297 *)

RECURSIVE build_mapping(_, _, _)
build_mapping(kp, i, new_t) ==
    IF i > Len(kp) THEN <<>>
    ELSE << <<kp[i][1], kp[i][2], new_t>> >>
         \o build_mapping(kp, i + 1, new_t + (kp[i][2] - kp[i][1]))

\* the table of build_time_remap; the closure remap reads nothing else
build_time_remap(segs, total) ==
    build_mapping(invert_segments(segs, total), 1, 0)

RECURSIVE remap_scan(_, _, _)
remap_scan(mp, i, t) ==
    IF i > Len(mp)
    THEN IF mp # <<>> THEN mp[Len(mp)][3] ELSE 0
    ELSE IF t < mp[i][1] THEN mp[i][3]
         ELSE IF mp[i][1] <= t /\ t <= mp[i][2] THEN mp[i][3] + (t - mp[i][1])
              ELSE remap_scan(mp, i + 1, t)

\* a scan that falls back on the last block's original end
RECURSIVE remap_scan_orig_end(_, _, _)
remap_scan_orig_end(mp, i, t) ==
    IF i > Len(mp)
    THEN IF mp # <<>> THEN mp[Len(mp)][2] ELSE 0
    ELSE IF t < mp[i][1] THEN mp[i][3]
         ELSE IF mp[i][1] <= t /\ t <= mp[i][2] THEN mp[i][3] + (t - mp[i][1])
              ELSE remap_scan_orig_end(mp, i + 1, t)

remap_orig_end(mp, t) == remap_scan_orig_end(mp, 1, t)

remap(mp, t) == remap_scan(mp, 1, t)

remap_interval(start, end, mp) ==
    LET rs == remap(mp, start)
        re == remap(mp, end)
    IN  <<rs, IF re < rs THEN rs ELSE re>>

---------------------------------------------------------------------------
(* calculate_sponsor_overlap, main.py 1394-1468 *)

RECURSIVE overlap_sum(_, _, _, _)
overlap_sum(start, end, segs, i) ==
    IF i > Len(segs) THEN 0
    ELSE LET overlap_start == Max(start, segs[i].start)
             overlap_end == Min(end, segs[i].end)
         IN  (IF overlap_start < overlap_end
              THEN overlap_end - overlap_start ELSE 0)
             + overlap_sum(start, end, segs, i + 1)

calculate_sponsor_overlap(start, end, segs) ==
    IF segs = <<>> THEN <<0, end>>
    ELSE LET total_sponsor_time == overlap_sum(start, end, segs, 1)
             adjusted_end == end - total_sponsor_time
         IN  <<py_int(total_sponsor_time), py_int(adjusted_end)>>

\* a push_log that keeps the last line only
push_log_overwrite(logs, line) == <<line>>

\* push_log, main.py 2433-2448: the line appended to the global buffer
push_log(logs, line) == Append(logs, line)

\* the lines pushed one after the other
RECURSIVE push_all(_, _)
push_all(logs, lines) ==
    IF lines = <<>> THEN logs
    ELSE push_all(push_log(logs, lines[1]), Tail(lines))

\* int(x) as a number of whole seconds, the argument fmt_hhmmss gets
int_secs(x) == floordiv(py_int(x), TicksPerSec)

\* 1446-1455: one line for each segment that overlaps the section
RECURSIVE overlap_segment_logs(_, _, _, _)
overlap_segment_logs(start, end, segs, i) ==
    IF i > Len(segs) THEN <<>>
    ELSE LET overlap_start == Max(start, segs[i].start)
             overlap_end == Min(end, segs[i].end)
         IN  (IF overlap_start < overlap_end
              THEN <<[key |-> "log_sponsorblock_segment_removed",
                      args |-> <<segs[i].category,
                                 fmt_hhmmss(int_secs(overlap_start)),
                                 fmt_hhmmss(int_secs(overlap_end)),
                                 int_secs(overlap_end - overlap_start)>>]>>
              ELSE <<>>)
             \o overlap_segment_logs(start, end, segs, i + 1)

\* 1438-1465: the lines calculate_sponsor_overlap pushes, in order
overlap_logs(start, end, segs) ==
    LET seg_lines == overlap_segment_logs(start, end, segs, 1)
        total_sponsor_time == overlap_sum(start, end, segs, 1)
        adjusted_end == end - total_sponsor_time
    IN  IF seg_lines = <<>> THEN <<>>
        ELSE <<[key |-> "log_sponsorblock_analysis",
                args |-> <<fmt_hhmmss(int_secs(start)), fmt_hhmmss(int_secs(end))>>]>>
             \o seg_lines
             \o <<[key |-> "log_total_sponsor_time",
                   args |-> <<int_secs(total_sponsor_time)>>],
                  [key |-> "log_cut_until",
                   args |-> <<fmt_hhmmss(int_secs(adjusted_end)),
                              fmt_hhmmss(int_secs(end))>>],
                  [key |-> "log_final_duration",
                   args |-> <<int_secs(adjusted_end - start)>>]>>

---------------------------------------------------------------------------
(* Specification of merge_overlaps *)

IdleMerge == margin = 0 /\ merged = <<>> /\ remerged = <<>>

IdleRemap ==
    /\ total_duration = 0 /\ keep = <<>> /\ mapping = <<>>
    /\ t_start = 0 /\ t_end = 0 /\ s2 = 0 /\ e2 = 0 /\ interval = <<0, 0>>

IdleOverlap ==
    /\ start_sec = None /\ end_sec = None
    /\ sponsor_segments = <<>>
    /\ sponsor_time_removed = 0 /\ adjusted_end_sec = None

IdleTime ==
    time_str = <<>> /\ seconds = 0 /\ parsed = None /\ formatted = <<>>

IdleFetch == lookup = <<>> /\ fetch_result = <<>>

IdleThreads == calls = <<>>

NoProc ==
    [state |-> "none", written |-> 0, read |-> 0, signals |-> <<>>,
     returncode |-> None]

IdleCmd ==
    /\ download_cancelled = FALSE
    /\ proc = NoProc
    /\ stdout = <<>>
    /\ tmp_files = {}

IdleAux == IdleTime /\ IdleFetch /\ IdleThreads /\ IdleCmd

IdleRun ==
    /\ do_cut = FALSE /\ remove_cats = FALSE /\ original_end_sec = None
    /\ cut_mode = "" /\ keyframes = <<>>
    /\ actual_start = None /\ actual_end = None /\ cmd_cut = <<>>
    /\ ret_dl = None /\ ret_cut = None /\ hooks = <<>>
    /\ download_finished = FALSE /\ cut_content = <<>>

IdleCore ==
    segments = <<>> /\ IdleMerge /\ IdleRemap /\ IdleOverlap /\ IdleRun

InitMerge ==
    /\ pc = "start"
    /\ segments \in SegListsOf(Categories)
    /\ margin \in Margins
    /\ merged = <<>> /\ remerged = <<>>
    /\ IdleRemap /\ IdleOverlap /\ IdleRun /\ IdleAux /\ ALL_LOGS = <<>>

MergeCall ==
    /\ pc = "start"
    /\ merged' = merge_overlaps(segments, margin)
    /\ pc' = "merged"
    /\ UNCHANGED <<auxVars, ALL_LOGS, segments, margin, remerged, remapVars, overlapVars, runVars>>

\* merge_overlaps applied to its own output, margin 0
MergeAgainCall ==
    /\ pc = "merged"
    /\ remerged' = merge_overlaps(merged_as_segments(merged), 0)
    /\ pc' = "remerged"
    /\ UNCHANGED <<auxVars, ALL_LOGS, segments, margin, merged, remapVars, overlapVars, runVars>>

\* merge_overlaps called once more, on the same segments in another order
MergePermutedCall ==
    /\ pc = "merged"
    /\ \E perm \in Permutations(1..Len(segments)) :
          /\ segments' = [i \in 1..Len(segments) |-> segments[perm[i]]]
          /\ remerged' = merge_overlaps(segments', margin)
    /\ pc' = "permuted"
    /\ UNCHANGED <<auxVars, ALL_LOGS, margin, merged, remapVars, overlapVars, runVars>>

NextMerge == MergeCall \/ MergeAgainCall \/ MergePermutedCall

SpecMerge == InitMerge /\ [][NextMerge]_vars

---------------------------------------------------------------------------
(* Specification of invert_segments, build_time_remap and remap_interval *)

\* total durations tried: negative, zero, and every tick of the timeline
TotalDurations == (0 - 1)..MaxT
\* times asked of remap: before, inside and beyond the timeline
QueryTimes == (0 - 1)..(MaxT + 1)

as_tuples(segs) == [i \in 1..Len(segs) |-> [start |-> segs[i].start, end |-> segs[i].end]]

InitRemap ==
    /\ pc = "start"
    /\ segments \in SegListsOf({1})
    /\ total_duration \in TotalDurations
    /\ keep = <<>> /\ mapping = <<>>
    /\ t_start = 0 /\ t_end = 0 /\ s2 = 0 /\ e2 = 0 /\ interval = <<0, 0>>
    /\ IdleMerge /\ IdleOverlap /\ IdleRun /\ IdleAux /\ ALL_LOGS = <<>>

\* invert_segments of main.py
InvertCall ==
    /\ pc = "start"
    /\ keep' = invert_segments(segments, total_duration)
    /\ pc' = "inverted"
    /\ UNCHANGED <<auxVars, ALL_LOGS, segments, mergeVars, total_duration, mapping, t_start, t_end,
                   s2, e2, interval, overlapVars, runVars>>

\* invert_segments of utils.py
UtilsInvertCall ==
    /\ pc = "start"
    /\ keep' = utils_invert_segments(as_tuples(segments), total_duration)
    /\ pc' = "inverted_utils"
    /\ UNCHANGED <<auxVars, ALL_LOGS, segments, mergeVars, total_duration, mapping, t_start, t_end,
                   s2, e2, interval, overlapVars, runVars>>

\* build_time_remap returns the closure remap and its table; the segment
\* list is gone with the call, remap reads the table only, and the caller
\* still knows the duration of the timeline it asks times of
BuildRemapCall ==
    /\ pc = "start"
    /\ keep' = invert_segments(segments, total_duration)
    /\ mapping' = build_time_remap(segments, total_duration)
    /\ segments' = <<>>
    /\ pc' = "built"
    /\ UNCHANGED <<auxVars, ALL_LOGS, total_duration, mergeVars, t_start, t_end, s2, e2, interval, overlapVars, runVars>>

\* remap_interval(start, end, remap) on the closure built before
RemapIntervalCall ==
    /\ pc \in {"built", "remapped"}
    /\ \E start \in QueryTimes, end \in QueryTimes :
          /\ start <= end
          /\ t_start' = start
          /\ t_end' = end
          /\ s2' = remap(mapping, start)
          /\ e2' = remap(mapping, end)
          /\ interval' = remap_interval(start, end, mapping)
    /\ pc' = "remapped"
    /\ UNCHANGED <<auxVars, ALL_LOGS, segments, mergeVars, total_duration, keep, mapping, overlapVars, runVars>>

NextRemap == InvertCall \/ UtilsInvertCall \/ BuildRemapCall \/ RemapIntervalCall

SpecRemap == InitRemap /\ [][NextRemap]_vars

---------------------------------------------------------------------------
(* Specification of calculate_sponsor_overlap *)

InitOverlap ==
    /\ pc = "start"
    /\ start_sec \in Seconds
    /\ end_sec \in Seconds
    /\ sponsor_segments \in SegListsOf({1})
    /\ sponsor_time_removed = 0 /\ adjusted_end_sec = None
    /\ segments = <<>>
    /\ IdleMerge /\ IdleRemap /\ IdleRun /\ IdleAux /\ ALL_LOGS = <<>>

OverlapCall ==
    /\ pc = "start"
    /\ LET r == calculate_sponsor_overlap(start_sec, end_sec, sponsor_segments)
       IN  /\ sponsor_time_removed' = r[1]
           /\ adjusted_end_sec' = r[2]
    /\ ALL_LOGS' = push_all(ALL_LOGS,
                            overlap_logs(start_sec, end_sec, sponsor_segments))
    /\ pc' = "overlap"
    /\ UNCHANGED <<auxVars, segments, mergeVars, remapVars, start_sec, end_sec,
                   sponsor_segments, runVars>>

NextOverlap == OverlapCall

SpecOverlap == InitOverlap /\ [][NextOverlap]_vars

---------------------------------------------------------------------------
(* find_nearest_keyframes, main.py 814-851 *)

\* longest keyframe list
MaxKeyframes == 2

Abs(x) == IF x >= 0 THEN x ELSE 0 - x

\* float("inf"): no difference is as large
Inf == 0 - 1

\* the elements of a set of numbers in ascending order
ascending(S) ==
    CHOOSE f \in [1..Cardinality(S) -> S] :
        \A i, j \in 1..Cardinality(S) : i < j => f[i] < f[j]

\* what get_keyframes can return: sorted timestamps, none on failure
KeyframeLists ==
    {ascending(S) : S \in {K \in SUBSET Ticks : Cardinality(K) <= MaxKeyframes}}

RECURSIVE nearest_scan(_, _, _, _, _)
nearest_scan(kfs, i, target, kf, min_diff) ==
    IF i > Len(kfs) THEN kf
    ELSE LET diff == Abs(kfs[i] - target)
         IN  IF min_diff = Inf \/ diff < min_diff
             THEN nearest_scan(kfs, i + 1, target, kfs[i], diff)
             ELSE nearest_scan(kfs, i + 1, target, kf, min_diff)

\* the scan that lets a later keyframe win a tie
RECURSIVE nearest_scan_last_tie(_, _, _, _, _)
nearest_scan_last_tie(kfs, i, target, kf, min_diff) ==
    IF i > Len(kfs) THEN kf
    ELSE LET diff == Abs(kfs[i] - target)
         IN  IF min_diff = Inf \/ diff <= min_diff
             THEN nearest_scan_last_tie(kfs, i + 1, target, kfs[i], diff)
             ELSE nearest_scan_last_tie(kfs, i + 1, target, kf, min_diff)

find_nearest_keyframes_last_tie(kfs, start, end) ==
    IF kfs = <<>> THEN <<start, end>>
    ELSE <<nearest_scan_last_tie(kfs, 1, start, start, Inf),
           nearest_scan_last_tie(kfs, 1, end, end, Inf)>>

\* the start scanned with the later keyframe winning a tie, the end with the
\* earlier one
find_nearest_keyframes_start_last_tie(kfs, start, end) ==
    IF kfs = <<>> THEN <<start, end>>
    ELSE <<nearest_scan_last_tie(kfs, 1, start, start, Inf),
           nearest_scan(kfs, 1, end, end, Inf)>>

\* no early return for an empty list
find_nearest_keyframes_none_when_empty(kfs, start, end) ==
    IF kfs = <<>> THEN <<None, None>>
    ELSE <<nearest_scan(kfs, 1, start, start, Inf),
           nearest_scan(kfs, 1, end, end, Inf)>>

find_nearest_keyframes(kfs, start, end) ==
    IF kfs = <<>> THEN <<start, end>>
    ELSE <<nearest_scan(kfs, 1, start, start, Inf),
           nearest_scan(kfs, 1, end, end, Inf)>>

\* 842-849: the lines find_nearest_keyframes pushes
nearest_logs(kfs, start, end) ==
    IF kfs = <<>> THEN <<>>
    ELSE LET w == find_nearest_keyframes(kfs, start, end)
         IN  <<[key |-> "log_keyframes_selected", args |-> w],
               [key |-> "log_keyframes_offset",
                args |-> <<Abs(w[1] - start), Abs(w[2] - end)>>]>>

---------------------------------------------------------------------------
(* The files: what yt-dlp downloads and what ffmpeg cuts out of it *)

\* the video is the tick cells 0 .. MaxT-1 of the original timeline; cell c
\* is the content of [c, c+1)
Removed(c, segs) ==
    \E j \in 1..Len(segs) : segs[j].start <= c /\ c + 1 <= segs[j].end

RECURSIVE cells_kept(_, _, _)
cells_kept(from, to, segs) ==
    IF from >= to THEN <<>>
    ELSE (IF Removed(from, segs) THEN <<>> ELSE <<from>>)
         \o cells_kept(from + 1, to, segs)

\* yt-dlp --sponsorblock-remove: the downloaded file without the segments
downloaded_file(removing, segs) ==
    cells_kept(0, MaxT, IF removing THEN segs ELSE <<>>)

\* ffmpeg -ss ss -to to -i file: the file's content from ss to to
ffmpeg_cut(file, ss, to) ==
    IF to <= ss THEN <<>> ELSE SubSeq(file, ss + 1, Min(to, Len(file)))

---------------------------------------------------------------------------
(* Specification of a submitted run, main.py 2658-3289 *)

InitRun ==
    /\ pc = "submitted"
    /\ segments = <<>>
    /\ IdleMerge /\ IdleRemap /\ IdleOverlap /\ IdleRun /\ IdleAux /\ ALL_LOGS = <<>>

\* 2669-2674: the cutting times parsed, do_cut decided
ParseTimes ==
    /\ pc = "submitted"
    /\ \E s \in Seconds \cup {None}, e \in Seconds \cup {None} :
          /\ start_sec' = s
          /\ end_sec' = e
          /\ do_cut' = (s # None /\ e # None /\ e > s)
    /\ pc' = "parsed"
    /\ UNCHANGED <<auxVars, ALL_LOGS, segments, mergeVars, remapVars, sponsor_segments,
                   sponsor_time_removed, adjusted_end_sec, remove_cats,
                   original_end_sec, cut_mode, keyframes, actual_start,
                   actual_end, cmd_cut, ret_dl, ret_cut, hooks,
                   download_finished, cut_content>>

\* 2770-2806: the section decision with the SponsorBlock adjustment
SectionDecision ==
    /\ pc = "parsed"
    /\ original_end_sec' = end_sec
    /\ \E rc \in BOOLEAN :
          /\ remove_cats' = rc
          /\ IF do_cut /\ rc
             THEN \E fetched \in SegListsOf({1}) :
                     LET r == calculate_sponsor_overlap(start_sec, end_sec, fetched)
                     IN  /\ sponsor_segments' = fetched
                         /\ sponsor_time_removed' = r[1]
                         /\ adjusted_end_sec' = r[2]
                         /\ end_sec' = IF r[1] > 0 THEN r[2] ELSE end_sec
                         /\ ALL_LOGS' = push_all(ALL_LOGS,
                                overlap_logs(start_sec, end_sec, fetched))
             ELSE /\ sponsor_time_removed' = 0
                  /\ adjusted_end_sec' = end_sec
                  /\ UNCHANGED <<sponsor_segments, end_sec, ALL_LOGS>>
    /\ pc' = "ready"
    /\ UNCHANGED <<auxVars, segments, mergeVars, remapVars, start_sec, do_cut, cut_mode,
                   keyframes, actual_start, actual_end, cmd_cut, ret_dl,
                   ret_cut, hooks, download_finished, cut_content>>

\* 2833-2849: the start hook
StartHook ==
    /\ pc = "ready"
    /\ hooks' = Append(hooks, "start")
    /\ pc' = "hooked"
    /\ UNCHANGED <<auxVars, ALL_LOGS, segments, mergeVars, remapVars, overlapVars, do_cut,
                   remove_cats, original_end_sec, cut_mode, keyframes,
                   actual_start, actual_end, cmd_cut, ret_dl, ret_cut,
                   download_finished, cut_content>>

\* 2851-2899: the download, its cancellation, the search for the file
Download ==
    /\ pc = "hooked"
    /\ \E ret \in {0, 1, 0 - 1}, found \in BOOLEAN :
          /\ ret_dl' = ret
          /\ IF ret = 0 - 1
             THEN /\ hooks' = Append(hooks, "failure:cancelled")
                  /\ download_finished' = TRUE
                  /\ pc' = "stopped"
             ELSE IF ~found
                  THEN /\ hooks' = Append(hooks, "failure:download_failed")
                       /\ pc' = "stopped"
                       /\ UNCHANGED download_finished
                  ELSE /\ pc' = "downloaded"
                       /\ UNCHANGED <<hooks, download_finished>>
    /\ UNCHANGED <<auxVars, ALL_LOGS, segments, mergeVars, remapVars, overlapVars, do_cut,
                   remove_cats, original_end_sec, cut_mode, keyframes,
                   actual_start, actual_end, cmd_cut, ret_cut, cut_content>>

\* the cut command built with the keyframes asked for the end as requested,
\* before the SponsorBlock adjustment
BuildCutCommand_requested_end ==
    /\ pc = "downloaded"
    /\ do_cut
    /\ \/ /\ cut_mode' = "keyframes"
          /\ \E kfs \in KeyframeLists :
                LET w == IF kfs # <<>>
                         THEN find_nearest_keyframes(kfs, start_sec, original_end_sec)
                         ELSE <<start_sec, end_sec>>
                IN  /\ keyframes' = kfs
                    /\ actual_start' = w[1]
                    /\ actual_end' = w[2]
                    /\ ALL_LOGS' = push_all(ALL_LOGS,
                           nearest_logs(kfs, start_sec, original_end_sec))
       \/ /\ cut_mode' = "precise"
          /\ actual_start' = start_sec
          /\ actual_end' = end_sec
          /\ UNCHANGED <<keyframes, ALL_LOGS>>
    /\ cmd_cut' = <<actual_start', actual_end'>>
    /\ pc' = "cut_built"
    /\ UNCHANGED <<auxVars, segments, mergeVars, remapVars, overlapVars, do_cut,
                   remove_cats, original_end_sec, ret_dl, ret_cut, hooks,
                   download_finished, cut_content>>

\* 2905-3172: the ffmpeg cut command built in keyframes or precise mode
BuildCutCommand ==
    /\ pc = "downloaded"
    /\ do_cut
    /\ \/ /\ cut_mode' = "keyframes"
          /\ \E kfs \in KeyframeLists :
                LET w == IF kfs # <<>>
                         THEN find_nearest_keyframes(kfs, start_sec, end_sec)
                         ELSE <<start_sec, end_sec>>
                IN  /\ keyframes' = kfs
                    /\ actual_start' = w[1]
                    /\ actual_end' = w[2]
                    /\ ALL_LOGS' = push_all(ALL_LOGS,
                           nearest_logs(kfs, start_sec, end_sec))
       \/ /\ cut_mode' = "precise"
          /\ actual_start' = start_sec
          /\ actual_end' = end_sec
          /\ UNCHANGED <<keyframes, ALL_LOGS>>
    /\ cmd_cut' = <<actual_start', actual_end'>>
    /\ pc' = "cut_built"
    /\ UNCHANGED <<auxVars, segments, mergeVars, remapVars, overlapVars, do_cut,
                   remove_cats, original_end_sec, ret_dl, ret_cut, hooks,
                   download_finished, cut_content>>

\* the cut run with st.stop() caught by the except around it: the
\* ffmpeg_exception hook follows the hook of the branch that stopped
RunCut_stop_caught ==
    /\ pc = "cut_built"
    /\ \/ \E ret \in {0, 1, 0 - 1}, made \in BOOLEAN :
             /\ ret_cut' = ret
             /\ IF ret = 0 - 1
                THEN /\ hooks' = hooks \o <<"failure:cancelled", "failure:ffmpeg_exception">>
                     /\ download_finished' = TRUE
                     /\ pc' = "stopped"
                     /\ UNCHANGED cut_content
                ELSE IF ret # 0 \/ ~made
                     THEN /\ hooks' = hooks \o <<"failure:cut_failed", "failure:ffmpeg_exception">>
                          /\ pc' = "stopped"
                          /\ UNCHANGED <<download_finished, cut_content>>
                     ELSE /\ cut_content' =
                                ffmpeg_cut(downloaded_file(remove_cats, sponsor_segments),
                                           cmd_cut[1], cmd_cut[2])
                          /\ pc' = "move"
                          /\ UNCHANGED <<hooks, download_finished>>
       \/ /\ hooks' = Append(hooks, "failure:ffmpeg_exception")
          /\ pc' = "stopped"
          /\ UNCHANGED <<ret_cut, download_finished, cut_content>>
    /\ UNCHANGED <<auxVars, ALL_LOGS, segments, mergeVars, remapVars, overlapVars, do_cut,
                   remove_cats, original_end_sec, cut_mode, keyframes,
                   actual_start, actual_end, cmd_cut, ret_dl>>

\* 3174-3247: the cut run, its cancellation and its failures
RunCut ==
    /\ pc = "cut_built"
    /\ \/ \E ret \in {0, 1, 0 - 1}, made \in BOOLEAN :
             /\ ret_cut' = ret
             /\ IF ret = 0 - 1
                THEN /\ hooks' = Append(hooks, "failure:cancelled")
                     /\ download_finished' = TRUE
                     /\ pc' = "stopped"
                     /\ UNCHANGED cut_content
                ELSE IF ret # 0 \/ ~made
                     THEN /\ hooks' = Append(hooks, "failure:cut_failed")
                          /\ pc' = "stopped"
                          /\ UNCHANGED <<download_finished, cut_content>>
                     ELSE /\ cut_content' =
                                ffmpeg_cut(downloaded_file(remove_cats, sponsor_segments),
                                           cmd_cut[1], cmd_cut[2])
                          /\ pc' = "move"
                          /\ UNCHANGED <<hooks, download_finished>>
       \/ /\ hooks' = Append(hooks, "failure:ffmpeg_exception")
          /\ pc' = "stopped"
          /\ UNCHANGED <<ret_cut, download_finished, cut_content>>
    /\ UNCHANGED <<auxVars, ALL_LOGS, segments, mergeVars, remapVars, overlapVars, do_cut,
                   remove_cats, original_end_sec, cut_mode, keyframes,
                   actual_start, actual_end, cmd_cut, ret_dl>>

\* 3248-3250: no section requested, the downloaded file is the final one
NoCut ==
    /\ pc = "downloaded"
    /\ ~do_cut
    /\ pc' = "move"
    /\ UNCHANGED <<auxVars, ALL_LOGS, segments, mergeVars, remapVars, overlapVars, runVars>>

\* 3251-3289: the move to the destination and the terminal hook
MoveFile ==
    /\ pc = "move"
    /\ \E moved \in BOOLEAN :
          hooks' = Append(hooks, IF moved THEN "success" ELSE "failure:move_failed")
    /\ download_finished' = TRUE
    /\ pc' = "done"
    /\ UNCHANGED <<auxVars, ALL_LOGS, segments, mergeVars, remapVars, overlapVars, do_cut,
                   remove_cats, original_end_sec, cut_mode, keyframes,
                   actual_start, actual_end, cmd_cut, ret_dl, ret_cut,
                   cut_content>>

NextRun ==
    \/ ParseTimes
    \/ SectionDecision
    \/ StartHook
    \/ Download
    \/ BuildCutCommand
    \/ RunCut
    \/ NoCut
    \/ MoveFile

Spec == InitRun /\ [][NextRun]_vars

---------------------------------------------------------------------------
(* Properties of calculate_sponsor_overlap *)

\* the sum over all segments of max(0, min(end, seg.end) - max(start, seg.start))
RECURSIVE SumOfOverlaps(_, _, _)
SumOfOverlaps(start, end, segs) ==
    IF segs = <<>> THEN 0
    ELSE Max(0, Min(end, segs[1].end) - Max(start, segs[1].start))
         + SumOfOverlaps(start, end, Tail(segs))

\* C4: calculate_sponsor_overlap returns removedSeconds equal to the sum of
\* the overlaps of the segments with the window and adjustedEnd equal to
\* endSec - removedSeconds, fractional segment bounds included; it returns
\* (0, endSec) when the list is empty or no segment meets the window.
C4_OverlapIsSum ==
    pc = "overlap" =>
        /\ sponsor_time_removed = SumOfOverlaps(start_sec, end_sec, sponsor_segments)
        /\ adjusted_end_sec = end_sec - sponsor_time_removed
        /\ (SumOfOverlaps(start_sec, end_sec, sponsor_segments) = 0 =>
                sponsor_time_removed = 0 /\ adjusted_end_sec = end_sec)

---------------------------------------------------------------------------
(* Properties of build_time_remap *)

RECURSIVE TotalKeptDuration(_)
TotalKeptDuration(mp) ==
    IF mp = <<>> THEN 0
    ELSE (mp[1][2] - mp[1][1]) + TotalKeptDuration(Tail(mp))

\* C5: remap is monotonic: for all t1 < t2, remap(t1) <= remap(t2), also for
\* t in a trailing removed region or beyond the total duration.
C5_RemapMonotonic ==
    (pc = "remapped" /\ t_start < t_end) => s2 <= e2

\* C6: remap stays in range: for any t, negative, inside or beyond the
\* timeline, 0 <= remap(t) <= totalKeptDuration, the summed length of the
\* keep intervals.
C6_RemapRange ==
    pc = "remapped" =>
        /\ 0 <= s2 /\ s2 <= TotalKeptDuration(mapping)
        /\ 0 <= e2 /\ e2 <= TotalKeptDuration(mapping)

\* a time before the timeline and a time beyond the last of two kept blocks
\* that lie apart have been remapped
C6_Witness ==
    /\ pc = "remapped"
    /\ Len(mapping) = 2
    /\ mapping[1][2] < mapping[2][1]
    /\ t_start < 0
    /\ t_end > mapping[2][2]

---------------------------------------------------------------------------
(* Properties of invert_segments, both copies *)

Inverted == pc \in {"inverted", "inverted_utils"}

\* total_duration >= max(segment ends), segments with 0 <= start <= end
CoveragePrecondition ==
    \A i \in 1..Len(segments) :
        /\ 0 <= segments[i].start
        /\ segments[i].start <= segments[i].end
        /\ segments[i].end <= total_duration

\* the tick cell [c, c+1) lies in the interval [a, b)
CellIn(c, a, b) == a <= c /\ c + 1 <= b

\* C7: for segments with 0 <= start <= end and total_duration >= every
\* segment end, the keep intervals are non-empty, ascending and pairwise
\* disjoint, lie in [0, total_duration], meet the interior of no segment,
\* and together with the segments cover [0, total_duration] without a gap.
C7_InvertCoverage ==
    (Inverted /\ CoveragePrecondition) =>
        /\ \A i \in 1..Len(keep) :
              /\ 0 <= keep[i][1]
              /\ keep[i][1] < keep[i][2]
              /\ keep[i][2] <= total_duration
        /\ \A i \in 1..(Len(keep) - 1) : keep[i][2] <= keep[i + 1][1]
        /\ \A i \in 1..Len(keep) : \A j \in 1..Len(segments) :
              ~(Max(keep[i][1], segments[j].start)
                    < Min(keep[i][2], segments[j].end))
        /\ \A c \in 0..(total_duration - 1) :
              \/ \E i \in 1..Len(keep) : CellIn(c, keep[i][1], keep[i][2])
              \/ \E j \in 1..Len(segments) :
                    CellIn(c, segments[j].start, segments[j].end)

\* two adjacent segments inside the timeline were inverted by main.py's copy:
\* a keep interval before them, one after them, none between them
C7_Witness ==
    /\ pc = "inverted"
    /\ CoveragePrecondition
    /\ Len(segments) = 2
    /\ 0 < segments[1].start
    /\ segments[1].start < segments[1].end
    /\ segments[1].end = segments[2].start
    /\ segments[2].start < segments[2].end
    /\ segments[2].end < total_duration
    /\ Len(keep) = 2

\* C8: for every segment list, total_duration <= 0 yields an empty list, and
\* an empty segment list with total_duration > 0 yields exactly the single
\* interval (0, total_duration).
C8_InvertDegenerate ==
    Inverted =>
        /\ (total_duration <= 0 => keep = <<>>)
        /\ (segments = <<>> /\ total_duration > 0 =>
                keep = << <<0, total_duration>> >>)

---------------------------------------------------------------------------
(* Properties of merge_overlaps *)

WellMerged(ms) ==
    /\ \A i \in 1..Len(ms) : ms[i].start <= ms[i].end
    /\ \A i \in 1..(Len(ms) - 1) : ms[i + 1].start > ms[i].end

\* C9: for segments with 0 <= start <= end and margin >= 0, the merged list
\* is sorted ascending by start, each entry has start <= end and starts
\* strictly after the end of the entry before it.
C9_MergeSortedDisjoint ==
    (pc \in {"merged", "remerged"} => WellMerged(merged))
    /\ (pc = "remerged" => WellMerged(remerged))

\* two segments given in descending order, apart even after the margin, were
\* merged into two entries
C9_Witness ==
    /\ pc = "merged"
    /\ Len(segments) = 2
    /\ segments[1].start > segments[2].end + 2 * margin
    /\ margin > 0
    /\ Len(merged) = 2

\* C10: merging the output of a merge again with margin 0, each merged entry
\* taken as segments carrying its categories, gives the same intervals and
\* category lists.
C10_MergeIdempotent ==
    pc = "remerged" => remerged = merged

\* two overlapping segments of different categories were merged into one
\* entry carrying both, and the result merged again
C10_Witness ==
    /\ pc = "remerged"
    /\ Len(segments) = 2
    /\ segments[1].category # segments[2].category
    /\ Len(merged) = 1
    /\ Len(merged[1].categories) = 2

---------------------------------------------------------------------------
(* Properties of the submitted run *)

\* C1: in every run that requests a cut, the trim command is never built
\* with a final window whose end <= start; such a window is reported as an
\* error instead.
C1_NoEmptyCutWindow ==
    cmd_cut # <<>> => cmd_cut[1] < cmd_cut[2]

\* the run cut the downloaded file at the exact timestamps after yt-dlp
\* removed the fetched segments from it
PreciseCutDone ==
    /\ pc = "move"
    /\ do_cut
    /\ remove_cats
    /\ cut_mode = "precise"

PairwiseDisjoint(segs) ==
    \A i, j \in 1..Len(segs) :
        i # j => ~(Max(segs[i].start, segs[j].start)
                       < Min(segs[i].end, segs[j].end))

Within(seg, start, end) == start <= seg.start /\ seg.end <= end
Outside(seg, start, end) == seg.end <= start \/ end <= seg.start

\* C2: for a window 0 <= start < end and pairwise disjoint segments that all
\* lie within it, the cut of the shortened file from start to the adjusted
\* end holds exactly the original content of [start, end) minus the
\* segments, in order, of length end - start - removedSeconds.
C2_CutKeepsWindowContent ==
    (/\ PreciseCutDone
     /\ PairwiseDisjoint(sponsor_segments)
     /\ \A j \in 1..Len(sponsor_segments) :
           Within(sponsor_segments[j], start_sec, original_end_sec))
    => /\ cut_content = cells_kept(start_sec, original_end_sec, sponsor_segments)
       /\ Len(cut_content) = original_end_sec - start_sec - sponsor_time_removed

WholeSeconds(segs) ==
    \A j \in 1..Len(segs) :
        segs[j].start % TicksPerSec = 0 /\ segs[j].end % TicksPerSec = 0

\* C2 holds of segments with whole-second bounds
CutKeepsWindowContentWholeSeconds ==
    WholeSeconds(sponsor_segments) => C2_CutKeepsWindowContent

RECURSIVE SelectWithin(_, _, _)
SelectWithin(segs, start, end) ==
    IF segs = <<>> THEN <<>>
    ELSE (IF Within(segs[1], start, end) THEN <<segs[1]>> ELSE <<>>)
         \o SelectWithin(Tail(segs), start, end)

\* C3: segments entirely outside the window are ignored: the start is not
\* adjusted, they count for nothing in removedSeconds, and the cut of the
\* shortened file still holds the original content of [start, end) minus
\* the removed segments.  Stated here of segments with whole-second bounds.
C3_OutsideSegmentsIgnored ==
    (/\ PreciseCutDone
     /\ PairwiseDisjoint(sponsor_segments)
     /\ WholeSeconds(sponsor_segments)
     /\ \A j \in 1..Len(sponsor_segments) :
           \/ Within(sponsor_segments[j], start_sec, original_end_sec)
           \/ Outside(sponsor_segments[j], start_sec, original_end_sec)
     /\ \E j \in 1..Len(sponsor_segments) :
           Outside(sponsor_segments[j], start_sec, original_end_sec))
    => /\ cmd_cut[1] = start_sec
       /\ sponsor_time_removed =
             SumOfOverlaps(start_sec, original_end_sec,
                 SelectWithin(sponsor_segments, start_sec, original_end_sec))
       /\ cut_content = cells_kept(start_sec, original_end_sec, sponsor_segments)


---------------------------------------------------------------------------
(* Specification of find_nearest_keyframes *)

InitKeyframes ==
    /\ pc = "start"
    /\ keyframes \in KeyframeLists
    /\ start_sec \in Seconds
    /\ end_sec \in Seconds
    /\ actual_start = None /\ actual_end = None
    /\ segments = <<>>
    /\ sponsor_segments = <<>> /\ sponsor_time_removed = 0
    /\ adjusted_end_sec = None
    /\ do_cut = FALSE /\ remove_cats = FALSE /\ original_end_sec = None
    /\ cut_mode = "" /\ cmd_cut = <<>>
    /\ ret_dl = None /\ ret_cut = None /\ hooks = <<>>
    /\ download_finished = FALSE /\ cut_content = <<>>
    /\ IdleMerge /\ IdleRemap /\ IdleAux /\ ALL_LOGS = <<>>

FindNearestCall ==
    /\ pc = "start"
    /\ LET w == find_nearest_keyframes(keyframes, start_sec, end_sec)
       IN  /\ actual_start' = w[1]
           /\ actual_end' = w[2]
    /\ ALL_LOGS' = push_all(ALL_LOGS,
                            nearest_logs(keyframes, start_sec, end_sec))
    /\ pc' = "nearest"
    /\ UNCHANGED <<auxVars, segments, mergeVars, remapVars, overlapVars, do_cut,
                   remove_cats, original_end_sec, cut_mode, keyframes, cmd_cut,
                   ret_dl, ret_cut, hooks, download_finished, cut_content>>

NextKeyframes == FindNearestCall

SpecKeyframes == InitKeyframes /\ [][NextKeyframes]_vars

---------------------------------------------------------------------------
(* Properties of find_nearest_keyframes *)

KeyframeSet == {keyframes[i] : i \in 1..Len(keyframes)}

\* kf is a keyframe no other keyframe is nearer to target than, and the
\* lowest of those as near
IsNearest(kf, target) ==
    /\ kf \in KeyframeSet
    /\ \A k \in KeyframeSet :
          /\ Abs(kf - target) <= Abs(k - target)
          /\ (Abs(k - target) = Abs(kf - target) => kf <= k)

\* C11: for a non-empty keyframe list, find_nearest_keyframes returns for
\* startSec and for endSec, each on its own, a keyframe that minimizes the
\* absolute difference to the target; where several are as near, the one
\* with the lowest timestamp.
C11_NearestKeyframe ==
    (pc = "nearest" /\ keyframes # <<>>) =>
        /\ IsNearest(actual_start, start_sec)
        /\ IsNearest(actual_end, end_sec)

\* the start lies midway between two keyframes and the end snaps to the
\* other one
C11_Witness ==
    /\ pc = "nearest"
    /\ Len(keyframes) = 2
    /\ Abs(keyframes[1] - start_sec) = Abs(keyframes[2] - start_sec)
    /\ actual_start = keyframes[1]
    /\ actual_end = keyframes[2]

\* C12: when the keyframe list is empty, as it is when the extraction
\* fails, find_nearest_keyframes returns (start_sec, end_sec) unchanged, and
\* the run in keyframes mode hands exactly the start and end it asked the
\* keyframes for to the ffmpeg command, not snapped values.
C12_EmptyKeyframesFallback ==
    /\ \A s \in Seconds, e \in Seconds :
          find_nearest_keyframes(<<>>, s, e) = <<s, e>>
    /\ (cut_mode = "keyframes" /\ keyframes = <<>> /\ cmd_cut # <<>>) =>
          /\ cmd_cut = <<start_sec, end_sec>>
          /\ actual_start = start_sec /\ actual_end = end_sec

\* a keyframes-mode cut has run on a file no keyframe was read from
C12_Witness ==
    /\ pc = "move"
    /\ cut_mode = "keyframes"
    /\ keyframes = <<>>
    /\ cmd_cut = <<start_sec, end_sec>>
    /\ cut_content # <<>>

---------------------------------------------------------------------------
(* Specification of parse_time_like and fmt_hhmmss *)

\* most components a text tried has: one more than a time has
MaxParts == 4

\* the components tried: empty, digits below and from 60, a letter,
\* SUPERSCRIPT TWO, a signed number
Components ==
    {<<>>, <<"0">>, <<"0", "7">>, <<"5", "9">>, <<"6", "0">>, <<"a">>,
     <<Sup2>>, <<"-", "1">>}

RECURSIVE join(_)
join(parts) ==
    IF Len(parts) = 1 THEN parts[1]
    ELSE parts[1] \o <<":">> \o join(Tail(parts))

Pads == {<<>>, <<" ">>}

\* texts a user can type: components joined by ":", blanks around them
TypedTexts ==
    {lead \o join(parts) \o trail :
        lead \in Pads, trail \in Pads,
        parts \in UNION {[1..n -> Components] : n \in 1..MaxParts}}

\* zero-padded HH:MM:SS texts, two digits to the field, MM and SS below 60
ZeroPadded ==
    {<<hh1, hh2, ":", mm1, mm2, ":", ss1, ss2>> :
        hh1 \in {"0", "1", "9"}, hh2 \in {"0", "9"},
        mm1 \in {"0", "5"}, mm2 \in {"0", "9"},
        ss1 \in {"0", "5"}, ss2 \in {"0", "9"}}

\* whole numbers of seconds: every mix of small and large fields, and some
\* negative ones
HourValues == {0, 1, 10, 99, 100}
FieldValues == {0, 9, 10, 59}
TimeValues ==
    {h * 3600 + m * 60 + s_ : h \in HourValues, m \in FieldValues, s_ \in FieldValues}
        \cup {0 - 1, 0 - 15, 0 - 60, 0 - 3600, 0 - 3661}

InitTime ==
    /\ \/ /\ pc = "start_str"
          /\ time_str \in TypedTexts \cup ZeroPadded
          /\ seconds = 0
       \/ /\ pc = "start_int"
          /\ time_str = <<>>
          /\ seconds \in TimeValues
    /\ parsed = None /\ formatted = <<>>
    /\ IdleCore /\ IdleFetch /\ IdleThreads /\ IdleCmd /\ ALL_LOGS = <<>>

\* parse_time_like(time_str)
ParseCall ==
    /\ pc = "start_str"
    /\ parsed' = parse_time_like(time_str)
    /\ pc' = "parsed_str"
    /\ UNCHANGED <<coreVars, ALL_LOGS, time_str, seconds, formatted, fetchVars, calls, cmdVars>>

\* fmt_hhmmss of what parse_time_like returned
FormatParsedCall ==
    /\ pc = "parsed_str"
    /\ parsed \notin {None, ValueError}
    /\ formatted' = fmt_hhmmss(parsed)
    /\ pc' = "round_trip_str"
    /\ UNCHANGED <<coreVars, ALL_LOGS, time_str, seconds, parsed, fetchVars, calls, cmdVars>>

\* fmt_hhmmss(seconds) of main.py
FormatCall ==
    /\ pc = "start_int"
    /\ formatted' = fmt_hhmmss(seconds)
    /\ pc' = "formatted"
    /\ UNCHANGED <<coreVars, ALL_LOGS, time_str, seconds, parsed, fetchVars, calls, cmdVars>>

\* fmt_hhmmss(seconds) of utils.py
UtilsFormatCall ==
    /\ pc = "start_int"
    /\ formatted' = utils_fmt_hhmmss(seconds)
    /\ pc' = "formatted_utils"
    /\ UNCHANGED <<coreVars, ALL_LOGS, time_str, seconds, parsed, fetchVars, calls, cmdVars>>

\* parse_time_like of what fmt_hhmmss returned
ParseFormattedCall ==
    /\ pc = "formatted"
    /\ parsed' = parse_time_like(formatted)
    /\ pc' = "round_trip_int"
    /\ UNCHANGED <<coreVars, ALL_LOGS, time_str, seconds, formatted, fetchVars, calls, cmdVars>>

NextTime ==
    \/ ParseCall
    \/ FormatParsedCall
    \/ FormatCall
    \/ UtilsFormatCall
    \/ ParseFormattedCall

SpecTime == InitTime /\ [][NextTime]_vars

---------------------------------------------------------------------------
(* Properties of parse_time_like and fmt_hhmmss *)

\* the text without the blanks around it, in its components
ComponentsOf(str) == split(strip(str))

AllDecimal(part) ==
    part # <<>> /\ \A i \in 1..Len(part) : part[i] \in DecimalChars

\* a text the time parser is to reject
Rejected(str) ==
    LET s == strip(str)
        parts == ComponentsOf(str)
    IN  \/ s = <<>>
        \/ s[1] = "-"
        \/ \E i \in 1..Len(parts) : ~AllDecimal(parts[i])
        \/ Len(parts) > 3
        \/ /\ Len(parts) = 2
           /\ \/ decimal_value(parts[1]) >= 60
              \/ decimal_value(parts[2]) >= 60
        \/ /\ Len(parts) = 3
           /\ \/ decimal_value(parts[2]) >= 60
              \/ decimal_value(parts[3]) >= 60

\* C13: parse_time_like returns None, and never raises, for every text it
\* is to reject: empty or blank text, text with a leading "-", text with a
\* component that is not all digits, a two- or three-component text with
\* seconds >= 60 or minutes >= 60, a text with more than three components.
C13_RejectedIsNone ==
    pc = "parsed_str" =>
        /\ parsed # ValueError
        /\ (Rejected(time_str) => parsed = None)

\* the same of the texts made of ASCII characters only, where int() does
\* not raise: violated by a two-component text with minutes >= 60
RejectedAsciiIsNone ==
    (/\ pc = "parsed_str"
     /\ \A i \in 1..Len(time_str) : time_str[i] # Sup2
     /\ Rejected(time_str)) => parsed = None

ZeroString == <<"0", "0", ":", "0", "0", ":", "0", "0">>

\* C14: parse_time_like(fmt_hhmmss(n)) = n for every integer n >= 0, and
\* fmt_hhmmss(parse_time_like(s)) = s for every zero-padded HH:MM:SS text s
\* with two-digit fields, MM < 60 and SS < 60.
C14_RoundTrip ==
    /\ (pc = "round_trip_int" /\ seconds >= 0) => parsed = seconds
    /\ (pc = "round_trip_str" /\ time_str \in ZeroPadded) => formatted = time_str

\* a number of seconds with hours, minutes and seconds all above nine has
\* been formatted and parsed back
C14_Witness ==
    /\ pc = "round_trip_int"
    /\ seconds = 10 * 3600 + 59 * 60 + 10
    /\ formatted = <<"1", "0", ":", "5", "9", ":", "1", "0">>
    /\ parsed = seconds

\* C15: fmt_hhmmss never fails on a negative number of seconds and clamps
\* it: for every integer seconds < 0 it returns "00:00:00", in main.py as in
\* utils.py.
C15_NegativeClamped ==
    (pc \in {"formatted", "formatted_utils"} /\ seconds < 0) =>
        formatted = ZeroString

\* the same of the "log_cut_until" line calculate_sponsor_overlap pushes:
\* an adjusted end below zero is to read "00:00:00" there
CutUntilLogClamped ==
    (pc = "overlap" /\ adjusted_end_sec < 0) =>
        \A i \in 1..Len(ALL_LOGS) :
            ALL_LOGS[i].key = "log_cut_until" => ALL_LOGS[i].args[1] = ZeroString

---------------------------------------------------------------------------
(* Specification of concurrent calls of the core functions: two threads,   *)
(* each calling one of merge_overlaps, invert_segments, build_time_remap,  *)
(* calculate_sponsor_overlap and find_nearest_keyframes.  What a call      *)
(* computes is local to its thread; each push_log is a step of its own on  *)
(* the global buffer ALL_LOGS.                                             *)

ThreadIds == {1, 2}

\* segment lists the threads call with
ThreadSegLists == {l \in SegListsOf({1}) : Len(l) <= 1}

ThreadOps ==
    {"merge_overlaps", "invert_segments", "build_time_remap",
     "calculate_sponsor_overlap", "find_nearest_keyframes"}

\* the whole timeline as a window of whole seconds
WholeWindowEnd == (MaxT \div TicksPerSec) * TicksPerSec

\* the arguments a thread can call op with
ThreadArgs(op) ==
    CASE op = "merge_overlaps" ->
            {<<segs, m>> : segs \in ThreadSegLists, m \in Margins}
      [] op \in {"invert_segments", "build_time_remap"} ->
            {<<segs, MaxT>> : segs \in ThreadSegLists}
      [] op = "calculate_sponsor_overlap" ->
            {<<0, WholeWindowEnd, segs>> : segs \in ThreadSegLists}
      [] op = "find_nearest_keyframes" ->
            {<<kfs, 0, WholeWindowEnd>> : kfs \in KeyframeLists}

\* what the called function returns
result_of(call) ==
    CASE call.op = "merge_overlaps" ->
            merge_overlaps(call.args[1], call.args[2])
      [] call.op = "invert_segments" ->
            invert_segments(call.args[1], call.args[2])
      [] call.op = "build_time_remap" ->
            build_time_remap(call.args[1], call.args[2])
      [] call.op = "calculate_sponsor_overlap" ->
            calculate_sponsor_overlap(call.args[1], call.args[2], call.args[3])
      [] call.op = "find_nearest_keyframes" ->
            find_nearest_keyframes(call.args[1], call.args[2], call.args[3])

\* the lines the called function pushes, in order
logs_of(call) ==
    CASE call.op = "calculate_sponsor_overlap" ->
            overlap_logs(call.args[1], call.args[2], call.args[3])
      [] call.op = "find_nearest_keyframes" ->
            nearest_logs(call.args[1], call.args[2], call.args[3])
      [] OTHER -> <<>>

IdleCall == [at |-> "idle", op |-> "", args |-> <<>>, pending |-> <<>>,
             result |-> <<>>]

InitThreads ==
    /\ pc = "threads"
    /\ calls = [t \in ThreadIds |-> IdleCall]
    /\ ALL_LOGS = <<>>
    /\ IdleCore /\ IdleTime /\ IdleFetch /\ IdleCmd

\* thread t enters a function with its arguments
ThreadCall(t) ==
    /\ calls[t].at = "idle"
    /\ \E op \in ThreadOps :
          \E args \in ThreadArgs(op) :
             calls' = [calls EXCEPT ![t] =
                          [at |-> "running", op |-> op, args |-> args,
                           pending |-> logs_of([op |-> op, args |-> args]),
                           result |-> <<>>]]
    /\ UNCHANGED <<pc, coreVars, ALL_LOGS, timeVars, fetchVars, cmdVars>>

\* thread t is at a push_log of its function
ThreadPushLog(t) ==
    /\ calls[t].at = "running"
    /\ calls[t].pending # <<>>
    /\ ALL_LOGS' = push_log(ALL_LOGS, calls[t].pending[1])
    /\ calls' = [calls EXCEPT ![t].pending = Tail(@)]
    /\ UNCHANGED <<pc, coreVars, timeVars, fetchVars, cmdVars>>

\* thread t returns from its function
ThreadReturn(t) ==
    /\ calls[t].at = "running"
    /\ calls[t].pending = <<>>
    /\ calls' = [calls EXCEPT ![t].at = "returned",
                              ![t].result = result_of([op |-> calls[t].op,
                                                       args |-> calls[t].args])]
    /\ UNCHANGED <<pc, coreVars, ALL_LOGS, timeVars, fetchVars, cmdVars>>

NextThreads ==
    \E t \in ThreadIds : ThreadCall(t) \/ ThreadPushLog(t) \/ ThreadReturn(t)

SpecThreads == InitThreads /\ [][NextThreads]_vars

---------------------------------------------------------------------------
(* Properties of concurrent calls *)

SameLine(x, y) == x.key = y.key /\ x.args = y.args

\* log is made of the lines of a and the lines of b, each in its order
RECURSIVE IsInterleaving(_, _, _)
IsInterleaving(log, a, b) ==
    IF log = <<>> THEN a = <<>> /\ b = <<>>
    ELSE \/ /\ a # <<>>
            /\ SameLine(log[1], a[1])
            /\ IsInterleaving(Tail(log), Tail(a), b)
         \/ /\ b # <<>>
            /\ SameLine(log[1], b[1])
            /\ IsInterleaving(Tail(log), a, Tail(b))

CallOf(t) == [op |-> calls[t].op, args |-> calls[t].args]

\* the lines thread t has pushed so far
Pushed(t) ==
    IF calls[t].at = "idle" THEN <<>>
    ELSE SubSeq(logs_of(CallOf(t)), 1,
                Len(logs_of(CallOf(t))) - Len(calls[t].pending))

PureOps == {"merge_overlaps", "invert_segments", "build_time_remap"}

---------------------------------------------------------------------------
(* fetch_sponsorblock_segments, main.py 1139-1226 *)

\* an entry of the response: a well-formed one with its segment, or one of
\* the malformed kinds
MalformedKinds ==
    {"not_dict",          \* not a JSON object
     "no_segment_key",    \* no "segment" or no "category" key
     "segment_not_list",  \* "segment" is not a list
     "segment_short",     \* "segment" has fewer than two elements
     "bad_number",        \* float("abc"): ValueError
     "null_number",       \* float(None): TypeError
     "huge_number"}       \* float(10**400): OverflowError

NoSegment == [start |-> 0, end |-> 0, category |-> 1]

Entries ==
    {[kind |-> "ok", seg |-> sg] : sg \in SegmentsOf({1})}
        \cup {[kind |-> k, seg |-> NoSegment] : k \in MalformedKinds}

EntryLists == UNION {[1..n -> Entries] : n \in 0..MaxSegs}

\* HTTP status codes the lookup can answer with
StatusCodes == {200, 302, 400, 403, 404, 429, 500}

NoBody == [kind |-> "none", entries |-> <<>>]

\* what a lookup meets: an unusable video id, an exception of requests.get,
\* a status without a usable body, or a body
Lookups ==
    {[vid |-> v, outcome |-> "none", status |-> 0, body |-> NoBody] :
        v \in {"missing", "bad_chars"}}
    \cup {[vid |-> "valid", outcome |-> o, status |-> 0, body |-> NoBody] :
            o \in {"Timeout", "ConnectionError", "RequestException"}}
    \cup {[vid |-> "valid", outcome |-> "response", status |-> c, body |-> NoBody] :
            c \in StatusCodes \ {200}}
    \cup {[vid |-> "valid", outcome |-> "response", status |-> 200,
           body |-> [kind |-> k, entries |-> <<>>]] : k \in {"not_json", "not_list"}}
    \cup {[vid |-> "valid", outcome |-> "response", status |-> 200,
           body |-> [kind |-> "list", entries |-> es]] : es \in EntryLists}

\* 1198-1207: what the body of the inner try does with an entry
convert_entry(x) ==
    CASE x.kind = "ok" -> "append"
      [] x.kind \in {"not_dict", "no_segment_key", "segment_not_list",
                     "segment_short"} -> "skip"
      [] x.kind = "bad_number" -> "ValueError"
      [] x.kind = "null_number" -> "TypeError"
      [] x.kind = "huge_number" -> "OverflowError"

\* 1208: except (ValueError, TypeError, KeyError)
InnerCaught == {"ValueError", "TypeError", "KeyError"}

Returned(value) == [raised |-> "", value |-> value]
Raised(exc) == [raised |-> exc, value |-> <<>>]

\* 1196-1212: the loop over the entries
RECURSIVE entries_loop(_, _, _)
entries_loop(raw, i, segs) ==
    IF i > Len(raw) THEN Returned(segs)
    ELSE LET c == convert_entry(raw[i])
         IN  IF c = "append"
             THEN entries_loop(raw, i + 1, Append(segs, raw[i].seg))
             ELSE IF c = "skip" \/ c \in InnerCaught
             THEN entries_loop(raw, i + 1, segs)
             ELSE Raised(c)

\* 1158-1212: the body of the outer try
fetch_try(lk) ==
    IF lk.vid # "valid" THEN Returned(<<>>)
    ELSE IF lk.outcome # "response" THEN Raised(lk.outcome)
    ELSE IF lk.status \in {404, 400, 403} \/ lk.status >= 500 THEN Returned(<<>>)
    ELSE IF lk.status >= 400 THEN Raised("HTTPError")
    ELSE IF lk.body.kind \in {"none", "not_json"} THEN Raised("JSONDecodeError")
    ELSE IF lk.body.kind # "list" THEN Returned(<<>>)
    ELSE entries_loop(lk.body.entries, 1, <<>>)

\* 1214-1226: every exception of the body ends in `return []`
fetch_sponsorblock_segments(lk) ==
    LET r == fetch_try(lk)
    IN  IF r.raised # "" THEN Returned(<<>>) ELSE r

InitFetch ==
    /\ pc = "start"
    /\ lookup \in Lookups
    /\ fetch_result = <<>>
    /\ IdleCore /\ IdleTime /\ IdleThreads /\ IdleCmd /\ ALL_LOGS = <<>>

FetchCall ==
    /\ pc = "start"
    /\ fetch_result' = fetch_sponsorblock_segments(lookup)
    /\ pc' = "fetched"
    /\ UNCHANGED <<coreVars, ALL_LOGS, timeVars, lookup, calls, cmdVars>>

NextFetch == FetchCall

SpecFetch == InitFetch /\ [][NextFetch]_vars

---------------------------------------------------------------------------
(* Properties of fetch_sponsorblock_segments *)

\* the segments of the well-formed entries, in order
RECURSIVE WellFormedSegments(_)
WellFormedSegments(es) ==
    IF es = <<>> THEN <<>>
    ELSE (IF es[1].kind = "ok" THEN <<es[1].seg>> ELSE <<>>)
         \o WellFormedSegments(Tail(es))

IsListBody == lookup.vid = "valid" /\ lookup.status = 200 /\ lookup.body.kind = "list"

\* C17: fetch_sponsorblock_segments returns a list, possibly empty, and
\* never raises, whatever the lookup meets: a missing or invalid video id,
\* a timeout, a connection error, a status that is not a success, a body
\* that is not a list; a malformed entry is skipped on its own and the
\* well-formed entries of the same response are kept.
C17_FetchTolerant ==
    pc = "fetched" =>
        /\ fetch_result.raised = ""
        /\ (~IsListBody => fetch_result.value = <<>>)
        /\ (IsListBody =>
               fetch_result.value = WellFormedSegments(lookup.body.entries))

\* the part of it that holds: no exception leaves the function
FetchNeverRaises == pc = "fetched" => fetch_result.raised = ""

---------------------------------------------------------------------------
(* Properties of remap_interval *)

\* t lies in no kept block of the table
InRemovedRegion(mp, t) ==
    \A i \in 1..Len(mp) : ~(mp[i][1] <= t /\ t < mp[i][2])

\* the kept blocks that end at or before t: two removed times with the
\* same count lie in the same removed region
BlocksBefore(mp, t) == Cardinality({i \in 1..Len(mp) : mp[i][2] <= t})

SameRemovedRegion(mp, t1, t2) ==
    /\ InRemovedRegion(mp, t1)
    /\ InRemovedRegion(mp, t2)
    /\ BlocksBefore(mp, t1) = BlocksBefore(mp, t2)

\* C18: for all start <= end and any remap built by build_time_remap,
\* remap_interval returns new_start <= new_end, and it clamps new_end to
\* new_start only when both endpoints fall into the same removed region.
C18_IntervalOrderedClampOnlyInRegion ==
    pc = "remapped" =>
        /\ interval[1] <= interval[2]
        /\ (e2 < s2 => SameRemovedRegion(mapping, t_start, t_end))

\* the part of it that holds: the interval returned is never inverted
IntervalNeverInverted == pc = "remapped" => interval[1] <= interval[2]

---------------------------------------------------------------------------
(* Properties of the section decision of a submitted run *)

\* C19: in the run the fetched segments are merged before the overlap with
\* the window is computed, so that overlapping or duplicate raw segments
\* are not counted twice: for every fetched list, the seconds removed that
\* adjust the end never exceed end - start, and the adjusted end is never
\* below the start.
C19_NoDoubleCounting ==
    (pc \notin {"submitted", "parsed"} /\ do_cut /\ remove_cats) =>
        /\ sponsor_time_removed <= original_end_sec - start_sec
        /\ adjusted_end_sec >= start_sec

\* the same for the fetched lists whose segments do not overlap, where
\* nothing can be counted twice: it holds
NoExcessWhenDisjoint ==
    (/\ pc \notin {"submitted", "parsed"}
     /\ do_cut /\ remove_cats
     /\ PairwiseDisjoint(sponsor_segments)) =>
        /\ sponsor_time_removed <= original_end_sec - start_sec
        /\ adjusted_end_sec >= start_sec

---------------------------------------------------------------------------
(* Properties of invert_segments for segments beyond the total duration *)

\* C20: for every segment list, segments that start at or beyond
\* total_duration or extend past it included, and every total_duration > 0,
\* each keep interval invert_segments returns satisfies
\* 0 <= orig_start < orig_end <= total_duration.
C20_KeepWithinDuration ==
    (Inverted /\ total_duration > 0) =>
        \A i \in 1..Len(keep) :
            /\ 0 <= keep[i][1]
            /\ keep[i][1] < keep[i][2]
            /\ keep[i][2] <= total_duration

\* the same of main.py's copy when no segment starts beyond the total
\* duration, segments that extend past it included: it holds
KeepWithinDurationStartsInside ==
    (/\ pc = "inverted"
     /\ total_duration > 0
     /\ \A j \in 1..Len(segments) : segments[j].start <= total_duration) =>
        \A i \in 1..Len(keep) :
            /\ 0 <= keep[i][1]
            /\ keep[i][1] < keep[i][2]
            /\ keep[i][2] <= total_duration


\* ---------------------------------------------------------------------
\* The table of build_time_remap and the four cases of remap

\* the summed lengths of the first n keep intervals
RECURSIVE LengthsBefore(_, _)
LengthsBefore(kp, n) ==
    IF n = 0 THEN 0 ELSE LengthsBefore(kp, n - 1) + (kp[n][2] - kp[n][1])

TableFollowsKeep ==
    /\ Len(mapping) = Len(keep)
    /\ \A i \in 1..Len(keep) :
          mapping[i] = <<keep[i][1], keep[i][2], LengthsBefore(keep, i - 1)>>

\* the value the four cases give for the time t, checked against r
RemapCases(t, r) ==
    /\ (mapping = <<>>) => (r = 0)
    /\ \A i \in 1..Len(mapping) :
          /\ (mapping[i][1] <= t /\ t <= mapping[i][2])
                => (r = mapping[i][3] + (t - mapping[i][1]))
          /\ (t < mapping[i][1] /\ (i = 1 \/ t > mapping[i - 1][2]))
                => (r = mapping[i][3])
    /\ (mapping # <<>> /\ t > mapping[Len(mapping)][2])
          => (r = mapping[Len(mapping)][3])

\* C21: the table holds one (origStart, origEnd, newStart) triple per keep
\* interval, in order, newStart being the summed lengths of the earlier keep
\* intervals; remap(t) is newStart_i + (t - origStart_i) for t inside keep
\* interval i, newStart_i for t in the removed region just before keep
\* interval i, the last newStart for t after the last keep interval and 0
\* when the table is empty
C21_TableAndRemapCases ==
    /\ (pc \in {"built", "remapped"}) => TableFollowsKeep
    /\ (pc = "remapped") => (RemapCases(t_start, s2) /\ RemapCases(t_end, e2))

\* the same with keep intervals that do not overlap one another
KeepApart ==
    \A i \in 1..Len(mapping) : \A j \in 1..Len(mapping) :
        (i < j) => (mapping[i][2] <= mapping[j][1])

TableAndRemapCasesKeepApart ==
    /\ (pc \in {"built", "remapped"}) => TableFollowsKeep
    /\ (pc = "remapped" /\ KeepApart)
          => (RemapCases(t_start, s2) /\ RemapCases(t_end, e2))

\* ---------------------------------------------------------------------
\* What merge_overlaps covers and which categories it carries

\* the points of the closed interval [a, b] at half-tick resolution, so that
\* two intervals one tick apart do not cover the same points as their hull
PointsOf(a, b) == (2 * a)..(2 * b)

ExpandedStart(seg) == Max(0, seg.start - margin)
ExpandedEnd(seg) == seg.end + margin

ExpandedPoints ==
    UNION {PointsOf(ExpandedStart(segments[j]), ExpandedEnd(segments[j])) :
              j \in 1..Len(segments)}

MergedPoints ==
    UNION {PointsOf(merged[i].start, merged[i].end) : i \in 1..Len(merged)}

CategoriesInside(entry) ==
    {segments[j].category :
        j \in {k \in 1..Len(segments) :
                  /\ entry.start <= ExpandedStart(segments[k])
                  /\ ExpandedEnd(segments[k]) <= entry.end}}

\* C22: for every segment list and margin >= 0 the union of the merged
\* intervals is the union of the input intervals widened by the margin on
\* both sides, the start clamped to >= 0, and each merged entry carries
\* exactly the categories of the input segments whose widened interval lies
\* inside the entry
C22_MergeCoversAndCarries ==
    (pc \in {"merged", "remerged"}) =>
        /\ MergedPoints = ExpandedPoints
        /\ \A i \in 1..Len(merged) :
              /\ {merged[i].categories[k] : k \in 1..Len(merged[i].categories)}
                    = CategoriesInside(merged[i])
              /\ Len(merged[i].categories)
                    = Cardinality(CategoriesInside(merged[i]))

\* a segment nested in an earlier, longer one of another category, the margin
\* clamped at 0, merged into one entry that carries both categories
C22_Witness ==
    /\ pc = "merged"
    /\ margin > 0
    /\ Len(segments) = 2
    /\ \E i \in 1..2 : \E j \in 1..2 :
          /\ segments[i].start < margin
          /\ segments[i].start < segments[j].start
          /\ segments[j].end < segments[i].end
          /\ segments[i].category # segments[j].category
    /\ Len(merged) = 1
    /\ Len(merged[1].categories) = 2

\* ---------------------------------------------------------------------
\* merge_overlaps and the order of its input

\* C23: the output of merge_overlaps does not depend on the order of the
\* input: every permutation of the segment list, segments of equal start with
\* different ends or categories included, gives the same intervals with the
\* same category lists
C23_MergeOrderIndependent ==
    (pc = "permuted") => (remerged = merged)

\* two segments of equal start, different ends and different categories, the
\* longer one first, were merged in both orders
C23_Witness ==
    /\ pc = "permuted"
    /\ Len(segments) = 2
    /\ segments[1].start = segments[2].start
    /\ segments[1].end > segments[2].end
    /\ segments[1].category # segments[2].category
    /\ Len(remerged) = 1
    /\ Len(remerged[1].categories) = 2

\* ---------------------------------------------------------------------
\* How far and in which order find_nearest_keyframes snaps

\* the two adjacent keyframes around t; for t before the first or after the
\* last keyframe, the first or the last two
PairAround(t) ==
    LET n == Len(keyframes)
    IN  IF t < keyframes[1] THEN 1
        ELSE IF t >= keyframes[n] THEN n - 1
        ELSE CHOOSE i \in 1..(n - 1) : keyframes[i] <= t /\ t < keyframes[i + 1]

WithinHalfGap(t, snapped) ==
    LET i == PairAround(t)
    IN  2 * Abs(snapped - t) <= keyframes[i + 1] - keyframes[i]

\* C24: for a non-empty ascending keyframe list and every requested
\* endpoint, the snapped endpoint is no further from the requested one than
\* half the gap between the two adjacent keyframes around the requested
\* time, for the start and the end alike (checked where the list has two
\* keyframes to take a gap from)
C24_SnapWithinHalfGap ==
    (pc = "nearest" /\ Len(keyframes) >= 2) =>
        /\ WithinHalfGap(start_sec, actual_start)
        /\ WithinHalfGap(end_sec, actual_end)

\* the same for endpoints that lie between the first and the last keyframe
InsideKeyframes(t) ==
    keyframes[1] <= t /\ t <= keyframes[Len(keyframes)]

SnapWithinHalfGapInside ==
    (pc = "nearest" /\ Len(keyframes) >= 2) =>
        /\ InsideKeyframes(start_sec) => WithinHalfGap(start_sec, actual_start)
        /\ InsideKeyframes(end_sec) => WithinHalfGap(end_sec, actual_end)

\* C30: for every keyframe list sorted ascending and every start_sec <=
\* end_sec, find_nearest_keyframes returns a snapped start that is not after
\* the snapped end
C30_SnappedOrdered ==
    (pc = "nearest" /\ start_sec <= end_sec) => (actual_start <= actual_end)

\* start and end asked at the same time, midway between two keyframes: both
\* snapped to the earlier one
C30_Witness ==
    /\ pc = "nearest"
    /\ Len(keyframes) = 2
    /\ start_sec = end_sec
    /\ Abs(keyframes[1] - start_sec) = Abs(keyframes[2] - start_sec)
    /\ actual_start = keyframes[1]
    /\ actual_end = keyframes[1]

\* ---------------------------------------------------------------------
\* The order in which the window of the cut command is derived

\* the end after the section decision: the adjusted end when SponsorBlock
\* removal is on and something was removed inside the window, else the end
\* as requested
EndAfterDecision ==
    IF remove_cats /\ sponsor_time_removed > 0
    THEN adjusted_end_sec
    ELSE original_end_sec

WindowDerivedInOrder ==
    (cmd_cut # <<>>) =>
        /\ end_sec = EndAfterDecision
        /\ remove_cats =>
              <<sponsor_time_removed, adjusted_end_sec>> =
                  calculate_sponsor_overlap(start_sec, original_end_sec,
                                            sponsor_segments)
        /\ (sponsor_segments = <<>>) => (end_sec = original_end_sec)
        /\ IF cut_mode = "keyframes" /\ keyframes # <<>>
           THEN /\ IsNearest(cmd_cut[1], start_sec)
                /\ IsNearest(cmd_cut[2], EndAfterDecision)
           ELSE cmd_cut = <<start_sec, EndAfterDecision>>

\* C25: in every run with a cut the window handed to the trim command is
\* derived in a fixed order: the requested (start, end); the end replaced by
\* the adjusted end exactly when SponsorBlock removal is on and the removed
\* seconds are > 0 (the start is never changed, and with no segments the end
\* stays as requested); then keyframes mode snaps both endpoints to their
\* nearest keyframes and precise mode uses them as they are; the snapping is
\* applied to the sponsor-adjusted end
C25_WindowDerivedInOrder ==
    /\ []WindowDerivedInOrder
    /\ [][(pc # "submitted") => (start_sec' = start_sec)]_vars

\* a keyframes cut was built after the end had been adjusted, and the
\* keyframe taken for the end is not the one nearest to the requested end
C25_Witness ==
    /\ pc = "cut_built"
    /\ cut_mode = "keyframes"
    /\ keyframes # <<>>
    /\ remove_cats
    /\ sponsor_time_removed > 0
    /\ end_sec = adjusted_end_sec
    /\ end_sec > start_sec
    /\ cmd_cut[2] # end_sec
    /\ ~IsNearest(cmd_cut[2], original_end_sec)

\* ---------------------------------------------------------------------
\* The length of a remapped interval and the content kept inside it

\* keep intervals as a disjoint segment list within the timeline leaves
\* them: ascending, apart, not empty, inside [0, total_duration]
KeepWellFormed ==
    /\ \A i \in 1..Len(keep) :
          0 <= keep[i][1] /\ keep[i][1] < keep[i][2] /\ keep[i][2] <= total_duration
    /\ \A i \in 1..(Len(keep) - 1) : keep[i][2] <= keep[i + 1][1]

\* the length of what is kept of [start, end]
RECURSIVE KeptInside(_, _, _)
KeptInside(kp, start, end) ==
    IF kp = <<>> THEN 0
    ELSE Max(0, Min(end, kp[1][2]) - Max(start, kp[1][1]))
         + KeptInside(Tail(kp), start, end)

\* C27: for every pairwise-disjoint segment list, total duration and
\* 0 <= start <= end <= total duration, the interval remap_interval returns
\* is as long as the content kept inside [start, end], also when end falls
\* in a removed region that reaches the end of the timeline
C27_IntervalLengthIsKept ==
    (pc = "remapped" /\ KeepWellFormed
        /\ 0 <= t_start /\ t_start <= t_end /\ t_end <= total_duration)
    => (interval[2] - interval[1] = KeptInside(keep, t_start, t_end))

\* the same with an end that is not after the last keep interval
IntervalLengthIsKeptBeforeTrailing ==
    (pc = "remapped" /\ KeepWellFormed
        /\ 0 <= t_start /\ t_start <= t_end /\ t_end <= total_duration
        /\ (keep # <<>> => t_end <= keep[Len(keep)][2]))
    => (interval[2] - interval[1] = KeptInside(keep, t_start, t_end))

---------------------------------------------------------------------------
(* Specification of run_cmd, the cancel button and the run around them *)

\* most output lines a process writes
MaxLines == 2

Cancelled == 0 - 1
ExitCodes == {0, 1}

\* the k-th output line of the process, and the lines run_cmd logs itself
output_line(k) == [key |-> "output", args |-> <<k>>]
command_line == [key |-> "$", args |-> <<>>]
cancelled_line == [key |-> "download_cancelled", args |-> <<>>]
exception_line == [key |-> "log_runner_exception", args |-> <<>>]

\* the log after one pass of the loop that logs the line before it looks at
\* the flag
run_cmd_line_logged_first(cancelled, line, logs) ==
    IF cancelled
    THEN push_log(push_log(logs, line), cancelled_line)
    ELSE push_log(logs, line)

\* 2484-2497: the log after one pass of the loop over proc.stdout
run_cmd_line(cancelled, line, logs) ==
    IF cancelled
    THEN push_log(logs, cancelled_line)
    ELSE push_log(logs, line)

\* 628-655: cleanup_temp_files unlinks base.* and *.part, *.ytdl, *.temp,
\* *.tmp; base_cut.mp4 matches none of the patterns
cleanup_temp_files(files) == files \ {"base.mp4", "base.mp4.part"}

Driving == pc \in {"run_dl", "run_cut"}

\* the state after the section decision: the flags as the submit left them
InitCmd ==
    /\ pc = "ready"
    /\ do_cut \in BOOLEAN
    /\ start_sec = (IF do_cut THEN 0 ELSE None)
    /\ end_sec = (IF do_cut THEN TicksPerSec ELSE None)
    /\ original_end_sec = end_sec
    /\ adjusted_end_sec = end_sec
    /\ sponsor_segments = <<>> /\ sponsor_time_removed = 0
    /\ remove_cats = FALSE
    /\ cut_mode = "" /\ keyframes = <<>>
    /\ actual_start = None /\ actual_end = None /\ cmd_cut = <<>>
    /\ ret_dl = None /\ ret_cut = None /\ hooks = <<>>
    /\ download_finished = FALSE /\ cut_content = <<>>
    /\ segments = <<>>
    /\ IdleMerge /\ IdleRemap /\ IdleAux /\ ALL_LOGS = <<>>

\* 2638-2655: the cancel button, shown while the download is not finished
CancelClick ==
    /\ ~download_finished
    /\ download_cancelled' = TRUE
    /\ download_finished' = TRUE
    /\ UNCHANGED <<pc, ALL_LOGS, segments, mergeVars, remapVars, overlapVars,
                   do_cut, remove_cats, original_end_sec, cut_mode, keyframes,
                   actual_start, actual_end, cmd_cut, ret_dl, ret_cut, hooks,
                   cut_content, timeVars, fetchVars, calls, proc, stdout,
                   tmp_files>>

\* 2472-2481 and 2620-2626: run_cmd logs the command and opens the process,
\* or returns 1 when that raises
RunCmdPopen ==
    /\ pc \in {"hooked", "cut_built"}
    /\ \/ /\ proc' = [NoProc EXCEPT !.state = "running"]
          /\ stdout' = <<>>
          /\ tmp_files' = tmp_files \cup
                {IF pc = "hooked" THEN "base.mp4.part" ELSE "base_cut.mp4"}
          /\ ALL_LOGS' = push_log(ALL_LOGS, command_line)
          /\ pc' = (IF pc = "hooked" THEN "run_dl" ELSE "run_cut")
          /\ UNCHANGED <<ret_dl, ret_cut>>
       \/ /\ ALL_LOGS' = push_log(push_log(ALL_LOGS, command_line), exception_line)
          /\ IF pc = "hooked"
             THEN ret_dl' = 1 /\ UNCHANGED ret_cut
             ELSE ret_cut' = 1 /\ UNCHANGED ret_dl
          /\ pc' = (IF pc = "hooked" THEN "ret_dl" ELSE "ret_cut")
          /\ UNCHANGED <<proc, stdout, tmp_files>>
    /\ UNCHANGED <<segments, mergeVars, remapVars, overlapVars, do_cut,
                   remove_cats, original_end_sec, cut_mode, keyframes,
                   actual_start, actual_end, cmd_cut, hooks, download_finished,
                   cut_content, timeVars, fetchVars, calls, download_cancelled>>

\* the process writes a line of output to the pipe
ProcWrite ==
    /\ Driving
    /\ proc.state = "running"
    /\ proc.written < MaxLines
    /\ proc' = [proc EXCEPT !.written = @ + 1]
    /\ stdout' = Append(stdout, output_line(proc.written + 1))
    /\ UNCHANGED <<pc, ALL_LOGS, coreVars, timeVars, fetchVars, calls,
                   download_cancelled, tmp_files>>

\* the process exits by itself; the download leaves its file or not, the cut
\* leaves its output or not
ProcExit ==
    /\ Driving
    /\ proc.state = "running"
    /\ \E code \in ExitCodes, made \in BOOLEAN :
          /\ proc' = [proc EXCEPT !.state = "exited", !.returncode = code]
          /\ tmp_files' =
                IF pc = "run_dl"
                THEN IF made
                     THEN (tmp_files \ {"base.mp4.part"}) \cup {"base.mp4"}
                     ELSE tmp_files
                ELSE IF made THEN tmp_files ELSE tmp_files \ {"base_cut.mp4"}
    /\ UNCHANGED <<pc, ALL_LOGS, coreVars, timeVars, fetchVars, calls,
                   download_cancelled, stdout>>

\* 2482-2497: one pass of the loop over proc.stdout: with the flag set the
\* process is terminated, killed when it has not exited 5 s later, and
\* run_cmd returns -1; else the line is logged
RunCmdReadLine ==
    /\ Driving
    /\ stdout # <<>>
    /\ ALL_LOGS' = run_cmd_line(download_cancelled, Head(stdout), ALL_LOGS)
    /\ IF download_cancelled
       THEN /\ \E obeys \in BOOLEAN :
                  proc' = [proc EXCEPT
                      !.read = @ + 1,
                      !.state = "exited",
                      !.signals = IF obeys \/ proc.state = "exited"
                                  THEN <<"terminate">>
                                  ELSE <<"terminate", "kill">>,
                      !.returncode = IF proc.state = "exited" THEN @
                                     ELSE IF obeys THEN 0 - 15 ELSE 0 - 9]
            /\ stdout' = <<>>
            /\ IF pc = "run_dl"
               THEN ret_dl' = Cancelled /\ UNCHANGED ret_cut
               ELSE ret_cut' = Cancelled /\ UNCHANGED ret_dl
            /\ pc' = (IF pc = "run_dl" THEN "ret_dl" ELSE "ret_cut")
       ELSE /\ proc' = [proc EXCEPT !.read = @ + 1]
            /\ stdout' = Tail(stdout)
            /\ UNCHANGED <<pc, ret_dl, ret_cut>>
    /\ UNCHANGED <<segments, mergeVars, remapVars, overlapVars, do_cut,
                   remove_cats, original_end_sec, cut_mode, keyframes,
                   actual_start, actual_end, cmd_cut, hooks, download_finished,
                   cut_content, timeVars, fetchVars, calls, download_cancelled,
                   tmp_files>>

\* 2601-2618: the pipe is at its end, run_cmd returns what proc.wait() gives
RunCmdWait ==
    /\ Driving
    /\ stdout = <<>>
    /\ proc.state = "exited"
    /\ IF pc = "run_dl"
       THEN ret_dl' = proc.returncode /\ UNCHANGED ret_cut
       ELSE ret_cut' = proc.returncode /\ UNCHANGED ret_dl
    /\ pc' = (IF pc = "run_dl" THEN "ret_dl" ELSE "ret_cut")
    /\ UNCHANGED <<ALL_LOGS, segments, mergeVars, remapVars, overlapVars, do_cut,
                   remove_cats, original_end_sec, cut_mode, keyframes,
                   actual_start, actual_end, cmd_cut, hooks, download_finished,
                   cut_content, auxVars>>

\* 2860-2878 and 3185-3203: what the run does with a result of -1
cancelled_run(after) ==
    /\ after = Cancelled
    /\ tmp_files' = cleanup_temp_files(tmp_files)
    /\ hooks' = Append(hooks, "failure:cancelled")
    /\ download_finished' = TRUE
    /\ pc' = "stopped"

\* 2860-2899: after the download: the cancellation, the search for the file
AfterDownload ==
    /\ pc = "ret_dl"
    /\ \/ cancelled_run(ret_dl)
       \/ /\ ret_dl # Cancelled
          /\ IF "base.mp4" \in tmp_files
             THEN pc' = "downloaded" /\ UNCHANGED hooks
             ELSE /\ hooks' = Append(hooks, "failure:download_failed")
                  /\ pc' = "stopped"
          /\ UNCHANGED <<tmp_files, download_finished>>
    /\ UNCHANGED <<ALL_LOGS, segments, mergeVars, remapVars, overlapVars, do_cut,
                   remove_cats, original_end_sec, cut_mode, keyframes,
                   actual_start, actual_end, cmd_cut, ret_dl, ret_cut,
                   cut_content, timeVars, fetchVars, calls, download_cancelled,
                   proc, stdout>>

\* 3177-3228: an exception inside the try around the cut
CutRaises ==
    /\ pc = "cut_built"
    /\ hooks' = Append(hooks, "failure:ffmpeg_exception")
    /\ pc' = "stopped"
    /\ UNCHANGED <<auxVars, ALL_LOGS, segments, mergeVars, remapVars, overlapVars,
                   do_cut, remove_cats, original_end_sec, cut_mode, keyframes,
                   actual_start, actual_end, cmd_cut, ret_dl, ret_cut,
                   download_finished, cut_content>>

\* 3185-3236: after the cut: the cancellation, the failure, the rename
AfterCut ==
    /\ pc = "ret_cut"
    /\ \/ cancelled_run(ret_cut)
       \/ /\ ret_cut # Cancelled
          /\ IF ret_cut # 0 \/ "base_cut.mp4" \notin tmp_files
             THEN /\ hooks' = Append(hooks, "failure:cut_failed")
                  /\ pc' = "stopped"
                  /\ UNCHANGED tmp_files
             ELSE /\ tmp_files' = (tmp_files \ {"base_cut.mp4"}) \cup {"base.mp4"}
                  /\ pc' = "move"
                  /\ UNCHANGED hooks
          /\ UNCHANGED download_finished
    /\ UNCHANGED <<ALL_LOGS, segments, mergeVars, remapVars, overlapVars, do_cut,
                   remove_cats, original_end_sec, cut_mode, keyframes,
                   actual_start, actual_end, cmd_cut, ret_dl, ret_cut,
                   cut_content, timeVars, fetchVars, calls, download_cancelled,
                   proc, stdout>>

\* what the script does, one step after the other
ScriptSteps ==
    \/ StartHook
    \/ RunCmdPopen
    \/ RunCmdReadLine
    \/ RunCmdWait
    \/ AfterDownload
    \/ BuildCutCommand
    \/ NoCut
    \/ CutRaises
    \/ AfterCut
    \/ MoveFile

NextCmd ==
    \/ ScriptSteps
    \/ ProcWrite
    \/ ProcExit
    \/ CancelClick

SpecRunCmd == InitCmd /\ [][NextCmd]_vars

\* the script goes on while it has a step to take, and a process that is
\* running exits at some time; nobody has to click, nothing has to be written
FairSpecRunCmd ==
    SpecRunCmd /\ WF_vars(ScriptSteps) /\ WF_vars(ProcExit)

\* ---------------------------------------------------------------------
\* Cancellation: what run_cmd and the run do once the flag is set

\* run_cmd has taken its cancellation branch
CancelledInRunCmd == proc.signals # <<>>

TerminalHooks ==
    {"success", "failure:cancelled", "failure:download_failed",
     "failure:cut_failed", "failure:ffmpeg_exception", "failure:move_failed"}

OutputLogged == {i \in 1..Len(ALL_LOGS) : ALL_LOGS[i].key = "output"}

\* a line is read with the flag set: the process is terminated and no longer
\* runs, -1 is returned for the command driven, the line is not logged
ReadWhileCancelled ==
    (Driving /\ download_cancelled /\ proc'.read = proc.read + 1) =>
        /\ proc'.signals \in {<<"terminate">>, <<"terminate", "kill">>}
        /\ proc'.state = "exited"
        /\ (pc = "run_dl") => (pc' = "ret_dl" /\ ret_dl' = Cancelled)
        /\ (pc = "run_cut") => (pc' = "ret_cut" /\ ret_cut' = Cancelled)
        /\ ALL_LOGS' = Append(ALL_LOGS, cancelled_line)

\* after the cancellation the run only cleans up, fires failure:cancelled,
\* marks the download finished and stops
CancelledRunStopped ==
    CancelledInRunCmd =>
        /\ pc \in {"ret_dl", "ret_cut", "stopped"}
        /\ "success" \notin {hooks[i] : i \in 1..Len(hooks)}
        /\ (cmd_cut = <<>>) => (ret_cut = None)
        /\ (pc = "stopped") =>
              /\ hooks = <<"start", "failure:cancelled">>
              /\ download_finished
              /\ tmp_files \cap {"base.mp4", "base.mp4.part"} = {}

C29_CancelNeverLost ==
    /\ (pc = "run_dl" /\ download_cancelled)
          ~> (pc = "ret_dl" /\ ret_dl = Cancelled)
    /\ (pc = "run_cut" /\ download_cancelled)
          ~> (pc = "ret_cut" /\ ret_cut = Cancelled)

\* the same for a flag set while a line is still to be read
CancelSeenWithALineToRead ==
    /\ (pc = "run_dl" /\ download_cancelled /\ stdout # <<>>)
          ~> (pc = "ret_dl" /\ ret_dl = Cancelled)
    /\ (pc = "run_cut" /\ download_cancelled /\ stdout # <<>>)
          ~> (pc = "ret_cut" /\ ret_cut = Cancelled)

\* ---------------------------------------------------------------------
\* The hooks of a run

HookSet == {hooks[i] : i \in 1..Len(hooks)}

\* the download command has been run
DownloadReached ==
    pc \in {"downloaded", "cut_built", "move", "done"}
    \/ (pc = "stopped" /\ hooks # <<>>)

============================================================================
